---- MODULE Spec2Model ----
(***************************************************************************)
(* Model of escaner-bodega.  From src/meli_envios2.py: the token store     *)
(* (load, can_refresh, refresh, _save_file), the authenticated request     *)
(* wrapper _meli_request, the label eligibility check                      *)
(* _explicacion_estado_label, the shipment resolvers and the label         *)
(* download.  From src/streamlit_app.py: derive_shipment_id,               *)
(* download_label_pdf, the record store helpers and process_scan.          *)
(*                                                                         *)
(* Python values: None is NoneVal, a key that a mapping does not hold is    *)
(* Absent, "" is the empty string.  A value is truthy when it is neither.  *)
(***************************************************************************)
EXTENDS Naturals, Sequences, FiniteSets, TLC

NoneVal == "<None>"
Absent == "<absent>"

Truthy(v) == v \notin {NoneVal, Absent, ""}

\* Python's `a or b` and `a and b` on values
PyOr(a, b) == IF Truthy(a) THEN a ELSE b
PyAnd(a, b) == IF Truthy(a) THEN b ELSE a

\* dict.get(key, default) on a mapping whose missing keys hold Absent
Get(d, k, default) == IF d[k] = Absent THEN default ELSE d[k]

Fields == {"app_id", "client_secret", "access_token", "refresh_token"}

VARIABLES
  app_id, client_secret, access_token, refresh_token,  \* MeliTokenStore fields
  tokenFile,     \* TOKEN_FILE on disk: [exists, data]
  env,           \* os.environ restricted to the MELI_* variables
  secrets,       \* st.secrets: [present, data] for the "meli" section
  pc,            \* position of the (single-threaded) process
  req,           \* arguments of the _meli_request call in progress
  sent,          \* requests issued by the call in progress: <<[req, auth]>>
  resps,         \* status codes received by the call in progress
  nRefresh,      \* refresh() invocations made by the call in progress
  ret,           \* response returned by the call: [status, n]
  lastRefresh,   \* record of the latest refresh() invocation
  sh,            \* shipment JSON handed to _explicacion_estado_label
  reason,        \* its result
  fn,            \* the helper (resolver, label download) called last
  args,          \* its arguments
  api,           \* what the API answered to each request of that call
  log,           \* the requests that call issued, in order
  out,           \* what it returned: [sid, pdf, err, raised]
  table,         \* rows of paquetes_mercadoenvios_chile, in insertion order
  bucket,        \* objects of the storage bucket "etiquetas", by key
  page,          \* st.session_state.page
  token,         \* st.session_state.meli_manual_token
  scan,          \* record of the latest process_scan call
  sess,          \* two operator sessions scanning the same guia, step by step
  sync,          \* record of the latest sync_meli_orders run
  pool           \* the futures of one page of sync_meli_orders and its maps

storeVars == <<app_id, client_secret, access_token, refresh_token>>
callVars == <<req, sent, resps, nRefresh, ret>>
labelVars == <<sh, reason>>
helperVars == <<fn, args, api, log, out>>
scanVars == <<table, bucket, page, token, scan>>
jobVars == <<sess, sync, pool>>
vars == <<app_id, client_secret, access_token, refresh_token, tokenFile, env,
          secrets, pc, req, sent, resps, nRefresh, ret, lastRefresh, sh, reason,
          fn, args, api, log, out, table, bucket, page, token, scan, sess, sync, pool>>

Store == [app_id |-> app_id, client_secret |-> client_secret,
          access_token |-> access_token, refresh_token |-> refresh_token]

(***************************************************************************)
(* MeliTokenStore._load_all_sources                                        *)
(***************************************************************************)
NoData == [f \in Fields |-> Absent]

\* 1) ENV: os.getenv(name) or None
LoadEnv(e) == [f \in Fields |-> PyOr(e[f], NoneVal)]

\* 2) st.secrets["meli"], when the section exists: sec.get(key, current)
LoadSecrets(cur, s) ==
  IF s.present THEN [f \in Fields |-> Get(s.data, f, cur[f])] ELSE cur

\* 3) the local file, read only when a field is still empty: data.get(key, current)
LoadFile(cur, file) ==
  IF (\E f \in Fields : ~Truthy(cur[f])) /\ file.exists
  THEN [f \in Fields |-> Get(file.data, f, cur[f])]
  ELSE cur

LoadAllSources(e, s, file) == LoadFile(LoadSecrets(LoadEnv(e), s), file)

(***************************************************************************)
(* MeliTokenStore.can_refresh, _save_file, refresh                         *)
(***************************************************************************)
\* bool(self.app_id and self.client_secret and self.refresh_token)
CanRefresh_NoSecret(st) == Truthy(PyAnd(st.app_id, st.refresh_token))

CanRefresh(st) == Truthy(PyAnd(PyAnd(st.app_id, st.client_secret), st.refresh_token))

\* _save_file: dump the four in-memory fields; a failing open/write is swallowed
\* and leaves the file as it was
SaveFile_NoRefreshToken(st, file, writable) ==
  IF writable
  THEN [exists |-> TRUE, data |-> [st EXCEPT !.refresh_token = Get(file.data, "refresh_token", NoneVal)]]
  ELSE file

SaveFile(st, file, writable) ==
  IF writable THEN [exists |-> TRUE, data |-> st] ELSE file

\* What the token endpoint (and the file system) may answer to one refresh().
\*   kind "response": an HTTP response whose body is a JSON object (or null)
\*                    holding access_token `at` and refresh_token `rt`
\*   kind "bad_json": an HTTP response whose body r.json() cannot parse
\*   kind "non_object": an HTTP response whose JSON body is not an object
\*   kind "network": requests.post raises
\* `writable`: whether _save_file can write the token file
PayloadAccess == {Absent, "", "A1", "A2"}
PayloadRefresh == {Absent, "", "R1", "R2"}
TokenStatuses == {200, 400}
RefreshOutcomes ==
  [kind : {"response"}, status : TokenStatuses, at : PayloadAccess,
   rt : PayloadRefresh, writable : BOOLEAN]
  \cup [kind : {"bad_json", "non_object"}, status : TokenStatuses, at : {Absent},
        rt : {Absent}, writable : {TRUE}]
  \cup [kind : {"network"}, status : {0}, at : {Absent}, rt : {Absent},
        writable : {TRUE}]

\* refresh(): the store, the file and the result it leaves.
\*   posted: whether a POST /oauth/token was sent, and with which refresh_token
\*   raised: whether an exception left refresh()
NoRefresh(st, file) ==
  [store |-> st, file |-> file, result |-> FALSE, raised |-> FALSE,
   posted |-> FALSE, postedToken |-> NoneVal]

RefreshOn200_KeepRefreshToken(st, file, o) ==
  LET st1 == [st EXCEPT !.access_token = PyOr(o.at, st.access_token)]
  IN [store |-> st1, file |-> SaveFile(st1, file, o.writable), result |-> TRUE,
      raised |-> FALSE, posted |-> TRUE, postedToken |-> st.refresh_token]

RefreshOn200(st, file, o) ==
  LET st1 == [st EXCEPT !.access_token = PyOr(o.at, st.access_token)]
      st2 == IF Truthy(o.rt) THEN [st1 EXCEPT !.refresh_token = o.rt] ELSE st1
  IN [store |-> st2, file |-> SaveFile(st2, file, o.writable), result |-> TRUE,
      raised |-> FALSE, posted |-> TRUE, postedToken |-> st.refresh_token]

Refresh_NoStatusCheck(st, file, o) ==
  IF ~CanRefresh(st) THEN NoRefresh(st, file)
  ELSE IF o.kind = "response" THEN RefreshOn200(st, file, o)
  ELSE [NoRefresh(st, file) EXCEPT !.posted = TRUE, !.postedToken = st.refresh_token]

Refresh(st, file, o) ==
  IF ~CanRefresh(st) THEN NoRefresh(st, file)
  ELSE IF o.kind = "response" /\ o.status = 200 THEN RefreshOn200(st, file, o)
  ELSE [NoRefresh(st, file) EXCEPT !.posted = TRUE, !.postedToken = st.refresh_token]

(***************************************************************************)
(* _meli_request                                                           *)
(***************************************************************************)
\* _meli_headers(access_token or ""): the value of the Authorization header
\* (the callers' extra headers never hold Authorization)
MeliHeaders_Stale(st) == IF sent # <<>> THEN sent[1].auth ELSE PyOr(st.access_token, "")

MeliHeaders(st) == PyOr(st.access_token, "")

\* The calls the helpers make: method, path and the extra header they pass
Requests ==
  { [method |-> "GET", path |-> "/users/me", extra |-> "none"],
    [method |-> "GET", path |-> "/shipment_labels", extra |-> "Accept"],
    [method |-> "POST", path |-> "/shipments/1/process/ready_to_ship", extra |-> "none"] }

\* What one requests.request gives: a response with a status code, or an
\* exception (connection error, timeout), which _meli_request lets through
Statuses == {200, 401, 403, 500}
Answers ==
  [raised : {FALSE}, status : Statuses] \cup {[raised |-> TRUE, status |-> 0]}
NoRequest == [method |-> NoneVal, path |-> NoneVal, extra |-> NoneVal]
NoResponse == [status |-> 0, n |-> 0]
NoOutcome ==
  [kind |-> NoneVal, status |-> 0, at |-> Absent, rt |-> Absent, writable |-> TRUE]
NotRefreshed ==
  [called |-> FALSE, pre |-> [f \in Fields |-> NoneVal],
   preFile |-> [exists |-> FALSE, data |-> NoData], out |-> NoOutcome,
   can |-> FALSE, result |-> FALSE, raised |-> FALSE, posted |-> FALSE,
   postedToken |-> NoneVal]

Idle == pc \in {"idle", "returned", "raised"}

\* lines 163-168: build the headers from the current token, issue the request
MeliRequestSend ==
  /\ Idle
  /\ \E r \in Requests, a \in Answers :
       /\ req' = r
       /\ sent' = <<[req |-> r, auth |-> MeliHeaders(Store)]>>
       /\ resps' = IF a.raised THEN <<>> ELSE <<a.status>>
       /\ pc' = IF a.raised THEN "raised" ELSE "got1"
  /\ nRefresh' = 0
  /\ ret' = NoResponse
  /\ lastRefresh' = NotRefreshed
  /\ UNCHANGED <<storeVars, tokenFile, env, secrets, labelVars, helperVars, scanVars, jobVars>>

\* lines 170-172: on 401/403 call _token_store.refresh(), once
MeliRequestRefresh_Loop ==
  /\ pc \in {"got1", "got2"}
  /\ resps[Len(resps)] \in {401, 403}
  /\ \E o \in RefreshOutcomes :
       LET res == Refresh(Store, tokenFile, o) IN
       /\ app_id' = res.store.app_id
       /\ client_secret' = res.store.client_secret
       /\ access_token' = res.store.access_token
       /\ refresh_token' = res.store.refresh_token
       /\ tokenFile' = res.file
       /\ lastRefresh' =
            [called |-> TRUE, pre |-> Store, preFile |-> tokenFile, out |-> o,
             can |-> CanRefresh(Store), result |-> res.result,
             raised |-> res.raised, posted |-> res.posted,
             postedToken |-> res.postedToken]
       /\ pc' = IF res.raised THEN "raised"
                ELSE IF res.result THEN "refreshed" ELSE "norefresh"
  /\ nRefresh' = nRefresh + 1
  /\ UNCHANGED <<env, secrets, req, sent, resps, ret, labelVars, helperVars, scanVars, jobVars>>

MeliRequestRefresh ==
  /\ pc = "got1"
  /\ resps[1] \in {401, 403}
  /\ \E o \in RefreshOutcomes :
       LET res == Refresh(Store, tokenFile, o) IN
       /\ app_id' = res.store.app_id
       /\ client_secret' = res.store.client_secret
       /\ access_token' = res.store.access_token
       /\ refresh_token' = res.store.refresh_token
       /\ tokenFile' = res.file
       /\ lastRefresh' =
            [called |-> TRUE, pre |-> Store, preFile |-> tokenFile, out |-> o,
             can |-> CanRefresh(Store), result |-> res.result,
             raised |-> res.raised, posted |-> res.posted,
             postedToken |-> res.postedToken]
       /\ pc' = IF res.raised THEN "raised"
                ELSE IF res.result THEN "refreshed" ELSE "norefresh"
  /\ nRefresh' = nRefresh + 1
  /\ UNCHANGED <<env, secrets, req, sent, resps, ret, labelVars, helperVars, scanVars, jobVars>>

\* lines 173-176: refresh() returned True: rebuild the headers, issue the same
\* request again
MeliRequestRetry ==
  /\ pc = "refreshed"
  /\ \E a \in Answers :
       /\ sent' = Append(sent, [req |-> req, auth |-> MeliHeaders(Store)])
       /\ resps' = IF a.raised THEN resps ELSE Append(resps, a.status)
       /\ pc' = IF a.raised THEN "raised" ELSE "got2"
  /\ UNCHANGED <<storeVars, tokenFile, env, secrets, req, nRefresh, ret,
                 lastRefresh, labelVars, helperVars, scanVars, jobVars>>

\* line 178: return r, the response of the latest request
MeliRequestReturn_First ==
  /\ \/ pc = "got1" /\ resps[1] \notin {401, 403}
     \/ pc \in {"norefresh", "got2"}
  /\ ret' = [status |-> resps[1], n |-> 1]
  /\ pc' = "returned"
  /\ UNCHANGED <<storeVars, tokenFile, env, secrets, req, sent, resps, nRefresh,
                 lastRefresh, labelVars, helperVars, scanVars, jobVars>>

MeliRequestReturn ==
  /\ \/ pc = "got1" /\ resps[1] \notin {401, 403}
     \/ pc \in {"norefresh", "got2"}
  /\ ret' = [status |-> resps[Len(resps)], n |-> Len(resps)]
  /\ pc' = "returned"
  /\ UNCHANGED <<storeVars, tokenFile, env, secrets, req, sent, resps, nRefresh,
                 lastRefresh, labelVars, helperVars, scanVars, jobVars>>

(***************************************************************************)
(* _explicacion_estado_label                                               *)
(*                                                                         *)
(* A shipment is [logistic_present, logistic, status, substatus,           *)
(* lead_time]; a missing key holds Absent.  A message is the tuple of the  *)
(* pieces its f-string joins; the result None is the empty tuple.          *)
(***************************************************************************)
LABEL_ALLOWED_TYPES == {"drop_off", "xd_drop_off", "cross_docking", "self_service"}

NoReason == <<>>

\* str(v) inside an f-string
Str(v) == IF v \in {Absent, NoneVal} THEN "None" ELSE v

\* sh_json.get("logistic") or {}
LogisticOf(s) ==
  IF s.logistic_present THEN s.logistic
  ELSE [k \in {"mode", "type", "logistic_type"} |-> Absent]

\* logistic.get("type") or logistic.get("logistic_type")
LogisticType_Swapped(s) ==
  PyOr(Get(LogisticOf(s), "logistic_type", NoneVal), Get(LogisticOf(s), "type", NoneVal))

LogisticType(s) ==
  PyOr(Get(LogisticOf(s), "type", NoneVal), Get(LogisticOf(s), "logistic_type", NoneVal))

\* ((sh_json.get("lead_time") or {}).get("buffering") or {}).get("date")
BufferingDate_WrongKey(s) ==
  IF s.lead_time.level = "buffering" THEN Get(s.lead_time, "level", NoneVal) ELSE NoneVal

BufferingDate(s) ==
  IF s.lead_time.level = "buffering" THEN Get(s.lead_time, "date", NoneVal) ELSE NoneVal

MsgNotMe2 == <<"El envío no es ME2 (mode != 'me2').">>
MsgNoType == <<"No se encontró logistic.type.">>
MsgFulfillment == <<"Fulfillment: la etiqueta de envío la gestiona Mercado Libre.">>
MsgTypeNotAllowed(ltype) ==
  <<"Tipo de logística no permitido para etiqueta: ", ltype, ".">>
MsgBufferingFrom(dt) ==
  <<"Etiqueta no disponible aún (buffering). Disponible desde: ", dt, ".">>
MsgBuffering == <<"Etiqueta no disponible aún (buffering).">>
MsgStatus(status) ==
  <<"Estado no permitido para imprimir etiqueta: status=", Str(status), ".">>
MsgSubstatus(substatus) ==
  <<"Subestado no permitido para imprimir etiqueta: substatus=", Str(substatus), ".">>

\* lines 307-308
ModeCheck_MissingPasses(mode) ==
  IF Truthy(mode) /\ mode # "me2" THEN MsgNotMe2 ELSE NoReason

ModeCheck(mode) == IF mode # "me2" THEN MsgNotMe2 ELSE NoReason

\* lines 310-315
TypeCheck(ltype) ==
  IF ltype = NoneVal THEN MsgNoType
  ELSE IF ltype = "fulfillment" THEN MsgFulfillment
  ELSE IF ltype \notin LABEL_ALLOWED_TYPES THEN MsgTypeNotAllowed(ltype)
  ELSE NoReason

\* lines 318-334
StateCheck_StatusFirst(status, substatus, dt) ==
  IF status # "ready_to_ship" THEN MsgStatus(status)
  ELSE IF status = "pending" /\ substatus = "buffered"
    THEN IF Truthy(dt) THEN MsgBufferingFrom(dt) ELSE MsgBuffering
  ELSE IF substatus \notin {"ready_to_print", "printed"} THEN MsgSubstatus(substatus)
  ELSE NoReason

StateCheck(status, substatus, dt) ==
  IF status = "pending" /\ substatus = "buffered"
    THEN IF Truthy(dt) THEN MsgBufferingFrom(dt) ELSE MsgBuffering
  ELSE IF status # "ready_to_ship" THEN MsgStatus(status)
  ELSE IF substatus \notin {"ready_to_print", "printed"} THEN MsgSubstatus(substatus)
  ELSE NoReason

\* the first check that gives a reason decides
ExplicacionEstadoLabel(s) ==
  LET byMode == ModeCheck(Get(LogisticOf(s), "mode", NoneVal))
      byType == TypeCheck(LogisticType(s))
  IN IF byMode # NoReason THEN byMode
     ELSE IF byType # NoReason THEN byType
     ELSE StateCheck(Get(s, "status", NoneVal), Get(s, "substatus", NoneVal),
                     BufferingDate(s))

\* The shipments the check is run on
Modes == {Absent, "me2", "me1", "custom"}
Types == {Absent, "", "fulfillment", "drop_off", "xd_drop_off", "cross_docking",
          "self_service", "default"}
LogisticTypes == {Absent, "", "fulfillment", "drop_off", "default"}
ShipmentStatuses == {Absent, "pending", "ready_to_ship", "shipped"}
Substatuses == {Absent, "buffered", "ready_to_print", "printed", "picked_up"}
LeadTimes ==
  { [level |-> "no_lead_time", date |-> Absent],
    [level |-> "no_buffering", date |-> Absent],
    [level |-> "buffering", date |-> Absent],
    [level |-> "buffering", date |-> ""],
    [level |-> "buffering", date |-> "2025-01-01"] }
Logistics ==
  [present : {TRUE}, mode : Modes, type : Types, logistic_type : LogisticTypes]
  \cup [present : {FALSE}, mode : {Absent}, type : {Absent}, logistic_type : {Absent}]
Shipments ==
  { [logistic_present |-> l.present,
     logistic |-> [mode |-> l.mode, type |-> l.type, logistic_type |-> l.logistic_type],
     status |-> st, substatus |-> su, lead_time |-> lt] :
    l \in Logistics, st \in ShipmentStatuses, su \in Substatuses, lt \in LeadTimes }
NoShipment ==
  [logistic_present |-> FALSE,
   logistic |-> [mode |-> Absent, type |-> Absent, logistic_type |-> Absent],
   status |-> Absent, substatus |-> Absent,
   lead_time |-> [level |-> "no_lead_time", date |-> Absent]]

\* the diagnosis of one shipment (lines 349, 462-473)
ExplainLabel ==
  /\ pc = "shipment"
  /\ reason' = ExplicacionEstadoLabel(sh)
  /\ pc' = "explained"
  /\ UNCHANGED <<storeVars, tokenFile, env, secrets, callVars, lastRefresh, sh,
                 helperVars, scanVars, jobVars>>

(***************************************************************************)
(* The helpers that call the API: _meli_get_user_id, the shipment resolvers *)
(* of meli_envios2.py and derive_shipment_id of streamlit_app.py.          *)
(*                                                                         *)
(* `api` holds the answer the API gives to each request a call may issue.  *)
(* An answer is a response with a status and a JSON object (kind "resp"),  *)
(* a response whose body r.json() cannot turn into an object (kind         *)
(* "bad_json"), or an exception raised by the request (kind "raise").      *)
(* JSON ids are numbers; 0 stands for a missing, null or zero id, all      *)
(* falsy.                                                                  *)
(***************************************************************************)
\* str(id) of a JSON number
IdStrings == <<"801", "802", "803", "804", "805", "806", "807", "808", "809">>
PyStr(n) == IdStrings[n]

Is200(a) == a.kind = "resp" /\ a.status = 200

UserAnswers ==
  { [kind |-> "raise", status |-> 0, id |-> 0],
    [kind |-> "resp", status |-> 403, id |-> 0],
    [kind |-> "resp", status |-> 200, id |-> 0],
    [kind |-> "resp", status |-> 200, id |-> 9] }
OrderAnswers ==
  { [kind |-> "raise", status |-> 0, shipping_id |-> 0, pack_id |-> 0, pack_obj_id |-> 0],
    [kind |-> "resp", status |-> 404, shipping_id |-> 0, pack_id |-> 0, pack_obj_id |-> 0],
    [kind |-> "bad_json", status |-> 200, shipping_id |-> 0, pack_id |-> 0, pack_obj_id |-> 0] }
  \cup { [kind |-> "resp", status |-> 200, shipping_id |-> s, pack_id |-> p.a,
          pack_obj_id |-> p.b] :
         s \in {0, 1}, p \in {[a |-> 0, b |-> 0], [a |-> 2, b |-> 0], [a |-> 0, b |-> 3]} }
PackAnswers ==
  { [kind |-> "raise", status |-> 0, shipment_id |-> 0],
    [kind |-> "resp", status |-> 404, shipment_id |-> 0],
    [kind |-> "bad_json", status |-> 200, shipment_id |-> 0],
    [kind |-> "resp", status |-> 200, shipment_id |-> 0],
    [kind |-> "resp", status |-> 200, shipment_id |-> 4] }
\* results[]: each result holds id and shipment_id
ResultLists ==
  { <<>>, <<[id |-> 0, shipment_id |-> 0]>>, <<[id |-> 5, shipment_id |-> 0]>>,
    <<[id |-> 0, shipment_id |-> 6]>>, <<[id |-> 7, shipment_id |-> 6], [id |-> 8, shipment_id |-> 0]>> }
SearchAnswers ==
  { [kind |-> "raise", status |-> 0, results |-> <<>>],
    [kind |-> "resp", status |-> 500, results |-> <<>>],
    [kind |-> "bad_json", status |-> 200, results |-> <<>>] }
  \cup { [kind |-> "resp", status |-> 200, results |-> r] : r \in ResultLists }

\* a request: endpoint, the id or query it carries, the seller it is scoped by
Rq(ep, id, seller) == [ep |-> ep, id |-> id, seller |-> seller]

\* _meli_get_user_id: the seller id, or 0 for None
MeliGetUserId(a) == IF Is200(a.user) THEN a.user.id ELSE 0

\* what a resolver hands back: the shipment id (or None), the requests it
\* issued, and whether an exception left it
Res(sid, lg) == [sid |-> sid, log |-> lg, raised |-> FALSE]
Raised(lg) == [sid |-> NoneVal, log |-> lg, raised |-> TRUE]

\* results[0].get("id") or results[0].get("shipment_id"), as a string
FirstSid_IdOnly(results) ==
  IF results = <<>> THEN NoneVal
  ELSE IF results[1].id > 0 THEN PyStr(results[1].id)
  ELSE NoneVal

FirstSid(results) ==
  IF results = <<>> THEN NoneVal
  ELSE IF results[1].id > 0 THEN PyStr(results[1].id)
  ELSE IF results[1].shipment_id > 0 THEN PyStr(results[1].shipment_id)
  ELSE NoneVal

\* _meli_get_shipment_id_from_pack: GET /packs/{id}, then the search by pack
ShipmentIdFromPack(pack_id, seller_id, a) ==
  LET r1 == Rq("/packs/{id}", pack_id, 0)
      r2 == Rq("/shipments/search?pack", pack_id, seller_id)
  IN IF Is200(a.pack) /\ a.pack.shipment_id > 0
     THEN Res(PyStr(a.pack.shipment_id), <<r1>>)
     ELSE Res(IF Is200(a.packsearch) THEN FirstSid(a.packsearch.results) ELSE NoneVal,
              <<r1, r2>>)

\* the fallback of _meli_get_shipment_id_from_order (lines 252-274): the search
\* with the seller, then without it when the first gave no candidate; an
\* exception anywhere ends it with None
OrderSearch_JsonOutsideTry(order_id, a) ==
  LET seller == MeliGetUserId(a)
      u == Rq("/users/me", "", 0)
      r2 == Rq("/shipments/search?order", order_id, seller)
      r3 == Rq("/shipments/search?order", order_id, 0)
      c2 == IF Is200(a.osearch) THEN a.osearch.results ELSE <<>>
      c3 == IF Is200(a.osearch2) THEN a.osearch2.results ELSE <<>>
  IN IF a.osearch.kind = "raise" THEN Res(NoneVal, <<u, r2>>)
     ELSE IF a.osearch.kind = "bad_json" THEN Raised(<<u, r2>>)
     ELSE IF c2 # <<>> THEN Res(FirstSid(c2), <<u, r2>>)
     ELSE IF a.osearch2.kind = "raise" THEN Res(NoneVal, <<u, r2, r3>>)
     ELSE IF a.osearch2.kind = "bad_json" THEN Raised(<<u, r2, r3>>)
     ELSE Res(FirstSid(c3), <<u, r2, r3>>)

OrderSearch(order_id, a) ==
  LET seller == MeliGetUserId(a)
      u == Rq("/users/me", "", 0)
      r2 == Rq("/shipments/search?order", order_id, seller)
      r3 == Rq("/shipments/search?order", order_id, 0)
      c2 == IF Is200(a.osearch) THEN a.osearch.results ELSE <<>>
      c3 == IF Is200(a.osearch2) THEN a.osearch2.results ELSE <<>>
  IN IF a.osearch.kind \in {"raise", "bad_json"} THEN Res(NoneVal, <<u, r2>>)
     ELSE IF c2 # <<>> THEN Res(FirstSid(c2), <<u, r2>>)
     ELSE IF a.osearch2.kind \in {"raise", "bad_json"} THEN Res(NoneVal, <<u, r2, r3>>)
     ELSE Res(FirstSid(c3), <<u, r2, r3>>)

\* _meli_get_shipment_id_from_order: shipping.id, else the pack of the order
\* (whatever the pack resolver gives is returned), else the search by order
ShipmentIdFromOrder_PackFirst(order_id, a) ==
  LET r1 == Rq("/orders/{id}", order_id, 0)
      u == Rq("/users/me", "", 0)
      packId == IF a.order.pack_id > 0 THEN a.order.pack_id ELSE a.order.pack_obj_id
      byPack == ShipmentIdFromPack(PyStr(packId), MeliGetUserId(a), a)
      bySearch == OrderSearch(order_id, a)
  IN IF Is200(a.order) /\ packId > 0
     THEN [byPack EXCEPT !.log = <<r1, u>> \o byPack.log]
     ELSE IF Is200(a.order) /\ a.order.shipping_id > 0
     THEN Res(PyStr(a.order.shipping_id), <<r1>>)
     ELSE [bySearch EXCEPT !.log = <<r1>> \o bySearch.log]

ShipmentIdFromOrder(order_id, a) ==
  LET r1 == Rq("/orders/{id}", order_id, 0)
      u == Rq("/users/me", "", 0)
      packId == IF a.order.pack_id > 0 THEN a.order.pack_id ELSE a.order.pack_obj_id
      byPack == ShipmentIdFromPack(PyStr(packId), MeliGetUserId(a), a)
      bySearch == OrderSearch(order_id, a)
  IN IF Is200(a.order) /\ a.order.shipping_id > 0
     THEN Res(PyStr(a.order.shipping_id), <<r1>>)
     ELSE IF Is200(a.order) /\ packId > 0
     THEN [byPack EXCEPT !.log = <<r1, u>> \o byPack.log]
     ELSE [bySearch EXCEPT !.log = <<r1>> \o bySearch.log]

\* derive_shipment_id (streamlit_app.py): the order's shipping.id, else the
\* pack's shipment.id, with the record's own order and pack ids
DeriveShipmentId_PackFirst(order_id, pack_id, a) ==
  LET r1 == Rq("/orders/{id}", order_id, 0)
      r2 == Rq("/packs/{id}", pack_id, 0)
      log2 == IF Truthy(pack_id) THEN <<r2>> ELSE <<>>
  IN IF Truthy(pack_id) /\ Is200(a.pack) /\ a.pack.shipment_id > 0
     THEN Res(PyStr(a.pack.shipment_id), log2)
     ELSE IF Truthy(order_id)
     THEN Res(IF Is200(a.order) /\ a.order.shipping_id > 0
              THEN PyStr(a.order.shipping_id) ELSE NoneVal, Append(log2, r1))
     ELSE Res(NoneVal, log2)

DeriveShipmentId(order_id, pack_id, a) ==
  LET r1 == Rq("/orders/{id}", order_id, 0)
      r2 == Rq("/packs/{id}", pack_id, 0)
      log1 == IF Truthy(order_id) THEN <<r1>> ELSE <<>>
  IN IF Truthy(order_id) /\ Is200(a.order) /\ a.order.shipping_id > 0
     THEN Res(PyStr(a.order.shipping_id), log1)
     ELSE IF Truthy(pack_id)
     THEN Res(IF Is200(a.pack) /\ a.pack.shipment_id > 0
              THEN PyStr(a.pack.shipment_id) ELSE NoneVal, Append(log1, r2))
     ELSE Res(NoneVal, log1)

(***************************************************************************)
(* Label download: _meli_get_shipment, _meli_download_label_pdf and        *)
(* descargar_etiqueta_por_order_o_pack of meli_envios2.py, download_label_pdf *)
(* of streamlit_app.py.  A body is the sequence of its bytes.              *)
(***************************************************************************)
PdfMagic == <<"%", "P", "D", "F">>
PdfBody == <<"%", "P", "D", "F", "-", "1">>
ShortBody == <<"%", "P", "D">>
HtmlBody == <<"<", "h", "t", "m", "l", ">">>
JsonObjectBody == <<"{", "m", "e", "s", "s", "a", "g", "e", "}">>
JsonNotPrintableBody == <<"{", "n", "o", "t", "_", "p", "r", "i", "n", "t", "a", "b", "l", "e", "}">>
JsonArrayBody == <<"[", "]">>
Contents ==
  {PdfBody, ShortBody, <<>>, HtmlBody, JsonObjectBody, JsonNotPrintableBody, JsonArrayBody}

\* content[:4]
FirstFour(c) == SubSeq(c, 1, IF Len(c) < Len(PdfMagic) THEN Len(c) ELSE Len(PdfMagic))
IsPdf_StatusOnly(c) == TRUE
IsPdf(c) == FirstFour(c) = PdfMagic

NoPdf == [some |-> FALSE, content |-> <<>>]
SomePdf(c) == [some |-> TRUE, content |-> c]
\* bytes are truthy when not empty
PdfTruthy(p) == p.some /\ p.content # <<>>

NoErr == [kind |-> "none", status |-> 0, text |-> ""]

LabelStatuses == {200, 400, 404, 429, 500}
LabelAnswers ==
  { [kind |-> "raise", status |-> 0, content |-> <<>>] }
  \cup [kind : {"resp"}, status : LabelStatuses, content : Contents]

\* the shipments the API may describe
SampleShipments ==
  { s \in Shipments :
      /\ s.logistic_present
      /\ s.logistic.mode \in {"me2", "me1"}
      /\ s.logistic.type \in {"drop_off", "fulfillment"}
      /\ s.logistic.logistic_type = Absent
      /\ s.status \in {"pending", "ready_to_ship"}
      /\ s.substatus \in {"buffered", "ready_to_print"}
      /\ s.lead_time.level = "no_lead_time" }
\* `empty` tells the JSON object {} from an object without the fields read here
ShipmentAnswers ==
  { [kind |-> "raise", status |-> 0, empty |-> TRUE, sh |-> NoShipment],
    [kind |-> "resp", status |-> 404, empty |-> TRUE, sh |-> NoShipment],
    [kind |-> "bad_json", status |-> 200, empty |-> TRUE, sh |-> NoShipment],
    [kind |-> "resp", status |-> 200, empty |-> TRUE, sh |-> NoShipment],
    [kind |-> "resp", status |-> 200, empty |-> FALSE, sh |-> NoShipment] }
  \cup [kind : {"resp"}, status : {200}, empty : {FALSE}, sh : SampleShipments]

\* _meli_get_shipment gave a dict that `if not sh` lets through
ShipmentRead(a) == Is200(a) /\ ~a.empty

\* _meli_download_label_pdf: the shipment, the diagnosis, then the label
MeliDownloadLabelPdf_NoCheck(shipment_id, shAns, labAns) ==
  LET r1 == Rq("/shipments/{id}", shipment_id, 0)
      r2 == Rq("/shipment_labels", shipment_id, 0)
  IN IF ~ShipmentRead(shAns) THEN [pdf |-> NoPdf, log |-> <<r1>>]
     ELSE [pdf |-> IF Is200(labAns) /\ IsPdf(labAns.content)
                   THEN SomePdf(labAns.content) ELSE NoPdf,
           log |-> <<r1, r2>>]

MeliDownloadLabelPdf(shipment_id, shAns, labAns) ==
  LET r1 == Rq("/shipments/{id}", shipment_id, 0)
      r2 == Rq("/shipment_labels", shipment_id, 0)
  IN IF ~ShipmentRead(shAns) THEN [pdf |-> NoPdf, log |-> <<r1>>]
     ELSE IF ExplicacionEstadoLabel(shAns.sh) # NoReason
     THEN [pdf |-> NoPdf, log |-> <<r1>>]
     ELSE [pdf |-> IF Is200(labAns) /\ IsPdf(labAns.content)
                   THEN SomePdf(labAns.content) ELSE NoPdf,
           log |-> <<r1, r2>>]

\* r.json() of an error body: an object, or {"message": text} when unparsable
JsonKind(c) ==
  IF c = JsonObjectBody THEN "object"
  ELSE IF c = JsonNotPrintableBody THEN "not_printable"
  ELSE IF c = JsonArrayBody THEN "array"
  ELSE "text"

\* the message of download_label_pdf for a response that is not a PDF
LabelError(labAns) ==
  IF JsonKind(labAns.content) = "array"
  THEN [kind |-> "red", status |-> 0, text |-> "Error de red: "]
  ELSE [kind |-> "status", status |-> labAns.status,
        text |-> IF labAns.status = 400 /\ JsonKind(labAns.content) = "not_printable"
                 THEN "400 not_printable_status: el envío no está listo para imprimir."
                 ELSE IF labAns.status = 429
                 THEN "429 local_rate_limited: intenta en unos segundos."
                 ELSE IF labAns.status = 404 THEN "404 not_found: revisa order/pack."
                 ELSE "message"]

\* download_label_pdf (streamlit_app.py): the label is requested at once
DownloadLabelPdf_AnyBody(shipment_id, labAns) ==
  LET r1 == Rq("/shipment_labels", shipment_id, 0)
  IN IF labAns.kind = "raise"
     THEN [pdf |-> NoPdf, err |-> [kind |-> "red", status |-> 0, text |-> "Error de red: "],
           log |-> <<r1>>]
     ELSE IF labAns.status = 200
     THEN [pdf |-> SomePdf(labAns.content), err |-> NoErr, log |-> <<r1>>]
     ELSE [pdf |-> NoPdf, err |-> LabelError(labAns), log |-> <<r1>>]

DownloadLabelPdf(shipment_id, labAns) ==
  LET r1 == Rq("/shipment_labels", shipment_id, 0)
  IN IF labAns.kind = "raise"
     THEN [pdf |-> NoPdf, err |-> [kind |-> "red", status |-> 0, text |-> "Error de red: "],
           log |-> <<r1>>]
     ELSE IF labAns.status = 200 /\ IsPdf(labAns.content)
     THEN [pdf |-> SomePdf(labAns.content), err |-> NoErr, log |-> <<r1>>]
     ELSE [pdf |-> NoPdf, err |-> LabelError(labAns), log |-> <<r1>>]

\* answers to HEAD and GET of a public URL
HeadAnswers ==
  { [kind |-> "raise", status |-> 0], [kind |-> "resp", status |-> 200],
    [kind |-> "resp", status |-> 302], [kind |-> "resp", status |-> 404] }
UrlGetAnswers ==
  { [kind |-> "raise", status |-> 0, content |-> <<>>] }
  \cup [kind : {"resp"}, status : {200, 404}, content : {PdfBody, HtmlBody, <<>>}]

\* url_disponible of meli_envios2.py: HEAD answers below 400
UrlDisponibleMeli(a) == a.kind = "resp" /\ a.status < 400

\* descargar_etiqueta_por_order_o_pack: the pack, then the order, then the
\* public URL of the stored file
Descargar(order_id, pack_id, url, a) ==
  LET u == Rq("/users/me", "", 0)
      none == Res(NoneVal, <<>>)
      nothing == [pdf |-> NoPdf, log |-> <<>>]
      byPack == IF Truthy(pack_id)
                THEN ShipmentIdFromPack(pack_id, MeliGetUserId(a), a) ELSE none
      log1 == IF Truthy(pack_id) THEN <<u>> \o byPack.log ELSE <<>>
      d1 == IF byPack.sid # NoneVal
            THEN MeliDownloadLabelPdf(byPack.sid, a.shipment, a.label) ELSE nothing
      byOrder == IF Truthy(order_id) THEN ShipmentIdFromOrder(order_id, a) ELSE none
      d2 == IF byOrder.sid # NoneVal
            THEN MeliDownloadLabelPdf(byOrder.sid, a.shipment2, a.label2) ELSE nothing
      log2 == log1 \o d1.log \o byOrder.log \o d2.log
      h == Rq("HEAD", url, 0)
      g == Rq("GET", url, 0)
  IN IF PdfTruthy(d1.pdf) THEN [pdf |-> d1.pdf, log |-> log1 \o d1.log]
     ELSE IF PdfTruthy(d2.pdf) THEN [pdf |-> d2.pdf, log |-> log2]
     ELSE IF ~Truthy(url) THEN [pdf |-> NoPdf, log |-> log2]
     ELSE IF ~UrlDisponibleMeli(a.head) THEN [pdf |-> NoPdf, log |-> Append(log2, h)]
     ELSE [pdf |-> IF a.urlget.kind = "resp" /\ IsPdf(a.urlget.content)
                   THEN SomePdf(a.urlget.content) ELSE NoPdf,
           log |-> log2 \o <<h, g>>]

\* --- one call of a helper, against every answer the API may give ---
NoArgs ==
  [order_id |-> NoneVal, pack_id |-> NoneVal, seller_id |-> 0,
   shipment_id |-> NoneVal, url |-> NoneVal]
NoOut == [sid |-> NoneVal, pdf |-> NoPdf, err |-> NoErr, raised |-> FALSE]
\* an API that answers nothing useful
DeadApi ==
  [user |-> [kind |-> "raise", status |-> 0, id |-> 0],
   order |-> [kind |-> "raise", status |-> 0, shipping_id |-> 0, pack_id |-> 0,
              pack_obj_id |-> 0],
   pack |-> [kind |-> "raise", status |-> 0, shipment_id |-> 0],
   packsearch |-> [kind |-> "raise", status |-> 0, results |-> <<>>],
   osearch |-> [kind |-> "raise", status |-> 0, results |-> <<>>],
   osearch2 |-> [kind |-> "raise", status |-> 0, results |-> <<>>],
   shipment |-> [kind |-> "raise", status |-> 0, empty |-> TRUE, sh |-> NoShipment],
   label |-> [kind |-> "raise", status |-> 0, content |-> <<>>],
   shipment2 |-> [kind |-> "raise", status |-> 0, empty |-> TRUE, sh |-> NoShipment],
   label2 |-> [kind |-> "raise", status |-> 0, content |-> <<>>],
   head |-> [kind |-> "raise", status |-> 0],
   urlget |-> [kind |-> "raise", status |-> 0, content |-> <<>>],
   upload |-> "raise",
   db |-> "raise_lookup"]

HelperInit ==
  /\ fn = "none"
  /\ args = NoArgs
  /\ api = DeadApi
  /\ log = <<>>
  /\ out = NoOut

restVars ==
  <<storeVars, tokenFile, env, secrets, pc, callVars, lastRefresh, labelVars, scanVars, jobVars>>

SellerIds == {0, 9}

\* _meli_get_shipment_id_from_pack(pack_id, seller_id)
ResolveFromPack ==
  /\ fn = "none"
  /\ \E seller \in SellerIds, p \in PackAnswers, ps \in SearchAnswers :
    LET a == [DeadApi EXCEPT !.pack = p, !.packsearch = ps]
        r == ShipmentIdFromPack("2000", seller, a)
    IN /\ fn' = "from_pack"
       /\ args' = [NoArgs EXCEPT !.pack_id = "2000", !.seller_id = seller]
       /\ api' = a
       /\ log' = r.log
       /\ out' = [NoOut EXCEPT !.sid = r.sid, !.raised = r.raised]
       /\ UNCHANGED restVars

\* _meli_get_shipment_id_from_order(order_id)
ResolveFromOrder ==
  /\ fn = "none"
  /\ \E o \in OrderAnswers, us \in UserAnswers, p \in PackAnswers,
     ps \in SearchAnswers, s1 \in SearchAnswers, s2 \in SearchAnswers :
    LET a == [DeadApi EXCEPT !.order = o, !.user = us, !.pack = p, !.packsearch = ps,
                             !.osearch = s1, !.osearch2 = s2]
        r == ShipmentIdFromOrder("1000", a)
    IN /\ fn' = "from_order"
       /\ args' = [NoArgs EXCEPT !.order_id = "1000"]
       /\ api' = a
       /\ log' = r.log
       /\ out' = [NoOut EXCEPT !.sid = r.sid, !.raised = r.raised]
       /\ UNCHANGED restVars

\* derive_shipment_id(token, order_id, pack_id)
DeriveShipment ==
  /\ fn = "none"
  /\ \E oid \in {NoneVal, "", "1000"}, pid \in {NoneVal, "", "2000"},
     o \in OrderAnswers, p \in PackAnswers :
    LET a == [DeadApi EXCEPT !.order = o, !.pack = p]
        r == DeriveShipmentId(oid, pid, a)
    IN /\ fn' = "derive"
       /\ args' = [NoArgs EXCEPT !.order_id = oid, !.pack_id = pid]
       /\ api' = a
       /\ log' = r.log
       /\ out' = [NoOut EXCEPT !.sid = r.sid, !.raised = r.raised]
       /\ UNCHANGED restVars

\* _meli_download_label_pdf(shipment_id)
FetchLabelMeli ==
  /\ fn = "none"
  /\ \E s \in ShipmentAnswers, l \in LabelAnswers :
    LET a == [DeadApi EXCEPT !.shipment = s, !.label = l]
        r == MeliDownloadLabelPdf("804", s, l)
    IN /\ fn' = "meli_download"
       /\ args' = [NoArgs EXCEPT !.shipment_id = "804"]
       /\ api' = a
       /\ log' = r.log
       /\ out' = [NoOut EXCEPT !.pdf = r.pdf]
       /\ UNCHANGED restVars

\* download_label_pdf(token, shipment_id)
FetchLabelApp ==
  /\ fn = "none"
  /\ \E l \in LabelAnswers :
    LET r == DownloadLabelPdf("804", l)
    IN /\ fn' = "app_download"
       /\ args' = [NoArgs EXCEPT !.shipment_id = "804"]
       /\ api' = [DeadApi EXCEPT !.label = l]
       /\ log' = r.log
       /\ out' = [NoOut EXCEPT !.pdf = r.pdf, !.err = r.err]
       /\ UNCHANGED restVars

\* the answers descargar_etiqueta_por_order_o_pack is run against
FewPackAnswers == {p \in PackAnswers : p.kind = "resp" /\ (p.status = 200 => p.shipment_id > 0)}
FewOrderAnswers ==
  {o \in OrderAnswers : o.kind = "resp" /\ o.pack_id = 0 /\ o.pack_obj_id = 0
                        /\ (o.status = 200 => o.shipping_id > 0)}
FewShipmentAnswers ==
  {s \in ShipmentAnswers : Is200(s) /\ ~s.empty /\ s.sh.logistic.mode = "me2"
                           /\ s.sh.status = "ready_to_ship"
                           /\ s.sh.substatus = "ready_to_print"}
FewLabelAnswers ==
  {l \in LabelAnswers : l.status \in {0, 200} /\ l.content \in {<<>>, PdfBody, HtmlBody}}

DescargarEtiqueta ==
  /\ fn = "none"
  /\ \E oid \in {NoneVal, "1000"}, pid \in {NoneVal, "2000"}, url \in {NoneVal, "", "https://bucket/a.pdf"},
     p \in FewPackAnswers, o \in FewOrderAnswers,
     s1 \in FewShipmentAnswers, l1 \in FewLabelAnswers,
     s2 \in FewShipmentAnswers, l2 \in FewLabelAnswers,
     h \in HeadAnswers, g \in UrlGetAnswers :
    LET a == [DeadApi EXCEPT !.pack = p, !.order = o, !.shipment = s1, !.label = l1,
                             !.shipment2 = s2, !.label2 = l2, !.head = h, !.urlget = g]
        r == Descargar(oid, pid, url, a)
    IN /\ fn' = "descargar"
       /\ args' = [NoArgs EXCEPT !.order_id = oid, !.pack_id = pid, !.url = url]
       /\ api' = a
       /\ log' = r.log
       /\ out' = [NoOut EXCEPT !.pdf = r.pdf]
       /\ UNCHANGED restVars

(***************************************************************************)
(* The scanner of streamlit_app.py: the record store helpers, the storage  *)
(* upload and process_scan.  Texts that the code strips are sequences of   *)
(* characters; <<>> is the empty text (None and "" are both falsy there).  *)
(***************************************************************************)
IsSpace(c) == c \in {" ", "\n", "\t"}

\* str.strip()
Strip_Identity(t) == t
Strip(t) ==
  LET keep == {i \in 1..Len(t) : ~IsSpace(t[i])}
      lo == CHOOSE i \in keep : \A j \in keep : i <= j
      hi == CHOOSE i \in keep : \A j \in keep : j <= i
  IN IF keep = {} THEN <<>> ELSE SubSeq(t, lo, hi)

Now == "now"
Etiqueta == <<"e", "t", "i", "q", "u", "e", "t", "a">>
PdfSuffix == <<".", "p", "d", "f">>
\* _get_public_url(key_path)
PublicUrl(key) == <<"https://storage/etiquetas/">> \o key

\* the order and pack ids of a record, as the strings the API helpers take
OrderText == <<"1", "0", "0", "0">>
PackText == <<"2", "0", "0", "0">>
AsStr(t) == IF t = OrderText THEN "1000" ELSE "2000"
\* (match.get(field) or "").strip() or None
IdOrNone(t) == IF Strip(t) = <<>> THEN NoneVal ELSE AsStr(Strip(t))

\* lookup_by_guia: the rows whose guia equals the argument
Matching_FirstRow(tbl, guia) == {i \in 1..Len(tbl) : i = 1 /\ tbl[i].guia = guia}

Matching(tbl, guia) == {i \in 1..Len(tbl) : tbl[i].guia = guia}
FirstMatch(tbl, guia) ==
  tbl[CHOOSE i \in Matching(tbl, guia) : \A j \in Matching(tbl, guia) : i <= j]

\* update_ingreso
UpdateIngreso_AlsoPrinted(tbl, guia) ==
  [i \in 1..Len(tbl) |->
     IF tbl[i].guia = guia
     THEN [tbl[i] EXCEPT !.fecha_ingreso = Now, !.fecha_impresion = Now,
                         !.estado_escaneo = "INGRESADO CORRECTAMENTE!"]
     ELSE tbl[i]]

UpdateIngreso(tbl, guia) ==
  [i \in 1..Len(tbl) |->
     IF tbl[i].guia = guia
     THEN [tbl[i] EXCEPT !.fecha_ingreso = Now,
                         !.estado_escaneo = "INGRESADO CORRECTAMENTE!"]
     ELSE tbl[i]]

\* set_impreso_ok
SetImpresoOk_NoStamp(tbl, guia, archivo_public) ==
  [i \in 1..Len(tbl) |->
     IF tbl[i].guia = guia
     THEN [tbl[i] EXCEPT !.estado_escaneo = "IMPRIMIDO CORRECTAMENTE!",
                         !.archivo_adjunto = archivo_public]
     ELSE tbl[i]]

SetImpresoOk(tbl, guia, archivo_public) ==
  [i \in 1..Len(tbl) |->
     IF tbl[i].guia = guia
     THEN [tbl[i] EXCEPT !.fecha_impresion = Now,
                         !.estado_escaneo = "IMPRIMIDO CORRECTAMENTE!",
                         !.archivo_adjunto = archivo_public]
     ELSE tbl[i]]

\* insert_no_coincidente; fecha_impresion is not given and stays null
InsertNoCoincidente_NoEstado(tbl, guia) ==
  Append(tbl, [asignacion |-> <<>>, guia |-> guia, fecha_ingreso |-> Now,
               fecha_impresion |-> NoneVal, estado_escaneo |-> "",
               archivo_adjunto |-> <<>>, orden_meli |-> <<>>, pack_id |-> <<>>,
               descripcion |-> ""])

InsertNoCoincidente(tbl, guia) ==
  Append(tbl, [asignacion |-> <<>>, guia |-> guia, fecha_ingreso |-> Now,
               fecha_impresion |-> NoneVal, estado_escaneo |-> "NO COINCIDENTE!",
               archivo_adjunto |-> <<>>, orden_meli |-> <<>>, pack_id |-> <<>>,
               descripcion |-> ""])

\* url_disponible of streamlit_app.py: HEAD answers exactly 200
UrlDisponible_Below400(url, a) == url # <<>> /\ a.kind = "resp" /\ a.status < 400

UrlDisponible(url, a) == url # <<>> /\ a.kind = "resp" /\ a.status = 200

DbOp(op, guia) == [op |-> op, guia |-> guia]

\* process_scan(guia) on page pg with the saved token tok, the table tbl and
\* the bucket bkt, against the answers a of the record store, the network
\* and the storage
ProcessScan(input, pg, tok, tbl, bkt, a) ==
  LET guia == Strip(input)
      base == [table |-> tbl, bucket |-> bkt, ops |-> <<>>, log |-> <<>>,
               sid |-> NoneVal, pdf |-> NoPdf, err |-> NoErr, served |-> FALSE,
               raised |-> FALSE, msg |-> ""]
      sel == <<DbOp("select", guia)>>
      looked == [base EXCEPT !.ops = sel]
      match == FirstMatch(tbl, guia)
      \* ----- IMPRIMIR -----
      asignacion ==
        LET x == Strip(IF match.asignacion = <<>> THEN Etiqueta ELSE match.asignacion)
        IN IF x = <<>> THEN Etiqueta ELSE x
      archivo_public == match.archivo_adjunto
      head == Rq("HEAD", "archivo_adjunto", 0)
      get == Rq("GET", "archivo_adjunto", 0)
      reachable == UrlDisponible(archivo_public, a.head)
      logStored == IF archivo_public = <<>> THEN <<>>
                   ELSE IF ~reachable THEN <<head>> ELSE <<head, get>>
      stored == reachable /\ a.urlget.kind = "resp" /\ IsPdf(a.urlget.content)
      d == DeriveShipmentId(IdOrNone(match.orden_meli), IdOrNone(match.pack_id), a)
      dl == DownloadLabelPdf(d.sid, a.label)
      key_path == asignacion \o PdfSuffix
      tried == [looked EXCEPT !.log = logStored]
      derived == [tried EXCEPT !.log = logStored \o d.log, !.sid = d.sid]
      fetched == [derived EXCEPT !.log = logStored \o d.log \o dl.log,
                                 !.pdf = dl.pdf, !.err = dl.err]
      stored_up == [fetched EXCEPT !.bucket = [bkt EXCEPT ![key_path] = dl.pdf.content],
                                   !.ops = Append(sel, DbOp("upload", key_path))]
  IN IF guia = <<>> THEN [base EXCEPT !.msg = "Ingresa una guía válida."]
     ELSE IF a.db = "raise_lookup" THEN [looked EXCEPT !.raised = TRUE]
     ELSE IF Matching(tbl, guia) = {}
     THEN IF a.db = "raise_write"
          THEN [looked EXCEPT !.ops = Append(sel, DbOp("insert", guia)), !.raised = TRUE]
          ELSE [looked EXCEPT !.ops = Append(sel, DbOp("insert", guia)),
                              !.table = InsertNoCoincidente(tbl, guia),
                              !.msg = "no encontrada. Se registró como NO COINCIDENTE."]
     ELSE IF pg = "ingresar"
     THEN IF a.db = "raise_write"
          THEN [looked EXCEPT !.ops = Append(sel, DbOp("update", guia)), !.raised = TRUE]
          ELSE [looked EXCEPT !.ops = Append(sel, DbOp("update", guia)),
                              !.table = UpdateIngreso(tbl, guia),
                              !.msg = "ingresada correctamente."]
     ELSE IF pg # "imprimir" THEN looked
     ELSE IF stored
     THEN [tried EXCEPT !.served = TRUE, !.pdf = SomePdf(a.urlget.content),
                        !.msg = "Etiqueta disponible desde almacenamiento."]
     ELSE IF Strip(tok) = <<>> THEN [tried EXCEPT !.msg = "Falta token para imprimir."]
     ELSE IF d.sid = NoneVal THEN [derived EXCEPT !.msg = "No se pudo derivar shipment_id."]
     ELSE IF ~dl.pdf.some
     THEN [fetched EXCEPT !.msg = "No se imprimió. Revisa el estado del envío."]
     ELSE IF a.upload = "raise"
     THEN [fetched EXCEPT !.ops = Append(sel, DbOp("upload", key_path)),
                          !.msg = "No se pudo subir el PDF."]
     ELSE IF a.upload = "nourl"
     THEN [stored_up EXCEPT !.msg = "No se pudo subir el PDF."]
     ELSE IF a.db = "raise_write"
     THEN [stored_up EXCEPT !.ops = stored_up.ops \o <<DbOp("update", guia)>>,
                            !.raised = TRUE]
     ELSE [stored_up EXCEPT !.ops = stored_up.ops \o <<DbOp("update", guia)>>,
                            !.table = SetImpresoOk(tbl, guia, PublicUrl(key_path)),
                            !.msg = "Impresión registrada correctamente."]

\* --- the values a scan is run on ---
G1 == <<"G", "1">>
G2 == <<"G", "2">>
A1 == <<"A", "1">>
A2 == <<" ", "A", "2">>
ExternalUrl == <<"https://elsewhere/label.pdf">>
Keys == {A1 \o PdfSuffix, Strip(A2) \o PdfSuffix, Etiqueta \o PdfSuffix}
EmptyBucket == [k \in Keys |-> <<>>]

Row(guia, asignacion, archivo, orden, pack) ==
  [asignacion |-> asignacion, guia |-> guia, fecha_ingreso |-> NoneVal,
   fecha_impresion |-> NoneVal, estado_escaneo |-> "", archivo_adjunto |-> archivo,
   orden_meli |-> orden, pack_id |-> pack, descripcion |-> "caja"]
Ingested(row) ==
  [row EXCEPT !.fecha_ingreso = "t0", !.estado_escaneo = "INGRESADO CORRECTAMENTE!"]
Printed(row) ==
  [row EXCEPT !.fecha_impresion = "t0", !.estado_escaneo = "IMPRIMIDO CORRECTAMENTE!"]

\* the stores a scan may find: table and bucket
Stores ==
  { [table |-> <<>>, bucket |-> EmptyBucket],
    [table |-> <<Row(G1, A1, <<>>, OrderText, <<>>), Row(<<>>, A2, <<>>, <<>>, PackText)>>,
     bucket |-> EmptyBucket],
    [table |-> <<Printed(Ingested(Row(G1, A1, PublicUrl(A1 \o PdfSuffix), OrderText, PackText))),
                 Row(G2, A2, <<>>, <<>>, PackText)>>,
     bucket |-> [EmptyBucket EXCEPT ![A1 \o PdfSuffix] = PdfBody]],
    [table |-> <<Ingested(Row(G1, <<>>, <<>>, <<>>, PackText)),
                 Row(G1, A2, ExternalUrl, OrderText, <<>>)>>,
     bucket |-> EmptyBucket],
    [table |-> <<Row(G2, A2, ExternalUrl, <<>>, <<>>), Row(G1, <<" ">>, ExternalUrl, <<" ">>, <<>>)>>,
     bucket |-> EmptyBucket] }

\* what the operator types or scans into the box
ScanInputs ==
  { G1, <<" ", "G", "1", "\n">>, <<"G", "9">>, <<"G", "9", "\n">>, <<>>, <<" ", "\n">> }
Tokens == { <<>>, <<"T", "K">> }
ScanPages == {"ingresar", "imprimir"}

\* the answers a scan is run against: the stored file, the order and pack,
\* the label, the upload and the record store
StoredAnswers ==
  { [head |-> [kind |-> "resp", status |-> 404], urlget |-> DeadApi.urlget],
    [head |-> [kind |-> "resp", status |-> 200],
     urlget |-> [kind |-> "resp", status |-> 200, content |-> PdfBody]],
    [head |-> [kind |-> "resp", status |-> 200],
     urlget |-> [kind |-> "resp", status |-> 200, content |-> HtmlBody]],
    [head |-> [kind |-> "resp", status |-> 200], urlget |-> DeadApi.urlget],
    [head |-> [kind |-> "resp", status |-> 302],
     urlget |-> [kind |-> "resp", status |-> 200, content |-> PdfBody]] }
DeriveAnswers ==
  { [order |-> [kind |-> "resp", status |-> 200, shipping_id |-> 1, pack_id |-> 2,
                pack_obj_id |-> 0],
     pack |-> DeadApi.pack],
    [order |-> [kind |-> "resp", status |-> 404, shipping_id |-> 0, pack_id |-> 0,
                pack_obj_id |-> 0],
     pack |-> [kind |-> "resp", status |-> 200, shipment_id |-> 4]],
    [order |-> DeadApi.order, pack |-> DeadApi.pack] }
ScanLabelAnswers ==
  { l \in LabelAnswers :
      \/ l.kind = "raise"
      \/ l.status = 200 /\ l.content \in {PdfBody, HtmlBody}
      \/ l.status = 400 /\ l.content = JsonNotPrintableBody }
UploadAnswers == {"ok", "raise", "nourl"}
DbAnswers == {"ok", "raise_lookup", "raise_write"}
ScanWorlds ==
  { [DeadApi EXCEPT !.head = st.head, !.urlget = st.urlget, !.order = dv.order,
                    !.pack = dv.pack, !.label = l, !.upload = up, !.db = db] :
    st \in StoredAnswers, dv \in DeriveAnswers, l \in ScanLabelAnswers,
    up \in UploadAnswers, db \in DbAnswers }

\* --- sync_meli_orders ---
O1 == OrderText
O2 == <<"1", "0", "0", "1">>
\* str.upper() on the letters the notes are written with
UpperChar(c) ==
  CASE c = "f" -> "F" [] c = "b" -> "B" [] c = "c" -> "C" [] OTHER -> c
Upper(t) == [i \in 1..Len(t) |-> UpperChar(t[i])]

\* an order as /orders/search lists it; <<>> and "" stand for a missing field
MeliOrder(id, pack, packobj, ship, status, pay) ==
  [id |-> id, pack_id |-> pack, pack_obj_id |-> packobj, shipping_id |-> ship,
   status |-> status, pay_status |-> pay, sku |-> "SKU1", quantity |-> 1,
   title |-> "item", item_id |-> "MLC1", date_created |-> "d0"]

\* _map_order
MapOrder(order) ==
  LET p == IF order.pack_id # <<>> THEN order.pack_id ELSE order.pack_obj_id
  IN [oid |-> order.id,
      status |-> IF order.pay_status # "" THEN order.pay_status ELSE order.status,
      created |-> order.date_created, qty |-> order.quantity, asin |-> order.sku,
      title |-> order.title, item_id |-> order.item_id,
      pack_id |-> IF p = <<>> THEN order.id ELSE p,
      shipment_id |-> order.shipping_id]

\* _get_order_note: the last note, stripped and in upper case; else the
\* FBC code found in the order JSON; else ""
GetOrderNote(a) ==
  IF a.kind = "resp" /\ a.status = 200 /\ a.notes # <<>>
  THEN Upper(Strip(a.notes[Len(a.notes)]))
  ELSE Upper(a.fbc)
\* _get_item_picture
GetItemPicture(item_id, a) ==
  IF item_id = "" THEN ""
  ELSE IF a.kind = "resp" /\ a.status = 200 THEN a.val ELSE ""
\* _get_ship_status
GetShipStatus(shipment_id, a) ==
  IF shipment_id = "" THEN ""
  ELSE IF a.kind = "resp" /\ a.status = 200 THEN a.val ELSE ""

\* a dict as a set of <<key, value>> pairs, one pair per key
Put(map, k, v) == {p \in map : p[1] # k} \cup {<<k, v>>}
GetOr(map, k, default) ==
  IF \E p \in map : p[1] = k THEN (CHOOSE p \in map : p[1] = k)[2] ELSE default
EmptyMaps == [notes |-> {}, pics |-> {}, ships |-> {}]

\* the futures submitted for the orders of a page, in submission order
Future(kind, b) ==
  [kind |-> kind, oid |-> b.oid, item_id |-> b.item_id, shipment_id |-> b.shipment_id]
RECURSIVE FuturesOf(_)
FuturesOf(basics) ==
  IF basics = <<>> THEN <<>>
  ELSE <<Future("note", Head(basics)), Future("pic", Head(basics))>>
       \o (IF Head(basics).shipment_id # "" THEN <<Future("ship", Head(basics))>>
           ELSE <<>>)
       \o FuturesOf(Tail(basics))

\* for fut in as_completed(futures): the body, for the future f under the
\* answers w; a worker whose answer is "crash" raises
Collect_SharedKey(m, f, w) ==
  CASE f.kind = "note" ->
         [m EXCEPT !.notes = Put(@, O1, IF w.note[f.oid].kind = "crash" THEN <<>>
                                        ELSE Upper(GetOrderNote(w.note[f.oid])))]
    [] f.kind = "pic" ->
         [m EXCEPT !.pics = Put(@, O1, IF w.pic[f.oid].kind = "crash" THEN ""
                                       ELSE GetItemPicture(f.item_id, w.pic[f.oid]))]
    [] OTHER ->
         [m EXCEPT !.ships = Put(@, O1, IF w.ship[f.oid].kind = "crash" THEN ""
                                        ELSE GetShipStatus(f.shipment_id, w.ship[f.oid]))]

Collect(m, f, w) ==
  CASE f.kind = "note" ->
         [m EXCEPT !.notes = Put(@, f.oid, IF w.note[f.oid].kind = "crash" THEN <<>>
                                           ELSE Upper(GetOrderNote(w.note[f.oid])))]
    [] f.kind = "pic" ->
         [m EXCEPT !.pics = Put(@, f.oid, IF w.pic[f.oid].kind = "crash" THEN ""
                                          ELSE GetItemPicture(f.item_id, w.pic[f.oid]))]
    [] OTHER ->
         [m EXCEPT !.ships = Put(@, f.oid, IF w.ship[f.oid].kind = "crash" THEN ""
                                           ELSE GetShipStatus(f.shipment_id, w.ship[f.oid]))]

\* the maps once every future has been collected
RECURSIVE Gather(_, _, _)
Gather(m, futs, w) ==
  IF futs = <<>> THEN m ELSE Gather(Collect(m, Head(futs), w), Tail(futs), w)

\* row_sync
RowSync(b, m) ==
  [asignacion |-> Upper(GetOr(m.notes, b.oid, <<>>)), guia |-> <<>>,
   estado_orden |-> b.status, estado_envio |-> GetOr(m.ships, b.oid, ""),
   asin |-> b.asin, cantidad |-> b.qty, titulo |-> b.title, orden_meli |-> b.oid,
   pack_id |-> IF b.pack_id = <<>> THEN b.oid ELSE b.pack_id,
   url_imagen |-> GetOr(m.pics, b.oid, ""), archivo_adjunto |-> <<>>,
   fecha_venta |-> b.created, fecha_sincronizacion |-> Now]
\* the columns insert(row_sync) leaves to the table's defaults
SyncDefaults ==
  [fecha_ingreso |-> NoneVal, fecha_impresion |-> NoneVal, estado_escaneo |-> "",
   descripcion |-> "", comentario |-> "", orden_amazon |-> ""]
\* the columns of the update
UpdateColumns_All ==
  {"asignacion", "guia", "estado_orden", "estado_envio", "asin", "cantidad", "titulo",
   "orden_meli", "pack_id", "url_imagen", "archivo_adjunto", "fecha_venta",
   "fecha_sincronizacion"}

UpdateColumns ==
  {"asignacion", "estado_orden", "estado_envio", "asin", "cantidad", "titulo",
   "pack_id", "url_imagen", "fecha_venta", "fecha_sincronizacion"}

\* the try block of one order: select by orden_meli, update the first row
\* found or insert; db = "raise" when a request to the store fails
Upsert(tbl, rs, db) ==
  LET existing == {i \in 1..Len(tbl) : tbl[i].orden_meli = rs.orden_meli}
      first == CHOOSE i \in existing : \A j \in existing : i <= j
  IN IF db = "raise" THEN tbl
     ELSE IF existing # {}
     THEN [tbl EXCEPT ![first] =
             [c \in DOMAIN tbl[first] |->
                IF c \in UpdateColumns THEN rs[c] ELSE tbl[first][c]]]
     ELSE Append(tbl, rs @@ SyncDefaults)

RECURSIVE UpsertAll(_, _, _, _)
UpsertAll(tbl, basics, m, w) ==
  IF basics = <<>> THEN tbl
  ELSE UpsertAll(Upsert(tbl, RowSync(Head(basics), m), w.db[Head(basics).oid]),
                 Tail(basics), m, w)

Limit == 50
BasicsOf(orders) == [i \in 1..Len(orders) |-> MapOrder(orders[i])]
\* the answer to the n-th /orders/search request
PageAt(w, n) ==
  IF n \in 1..Len(w.pages) THEN w.pages[n]
  ELSE [kind |-> "raise", status |-> 0, results |-> <<>>, total |-> 0]

\* the while loop, from the n-th request on
RECURSIVE RunPages(_, _, _, _, _)
RunPages(tbl, seen, n, offset, w) ==
  LET r == PageAt(w, n)
      basics == BasicsOf(r.results)
      done == UpsertAll(tbl, basics, Gather(EmptyMaps, FuturesOf(basics), w), w)
  IN IF r.kind = "raise" \/ r.status # 200
     THEN [table |-> tbl, seen |-> seen, requests |-> n, raised |-> FALSE]
     ELSE IF r.kind = "badjson"
     THEN [table |-> tbl, seen |-> seen, requests |-> n, raised |-> TRUE]
     ELSE IF r.results = <<>>
     THEN [table |-> tbl, seen |-> seen, requests |-> n, raised |-> FALSE]
     ELSE IF offset + Limit >= r.total
     THEN [table |-> done, seen |-> seen \o basics, requests |-> n, raised |-> FALSE]
     ELSE RunPages(done, seen \o basics, n + 1, offset + Limit, w)

\* sync_meli_orders
SyncMeliOrders(tok, tbl, w) ==
  IF Strip(tok) = <<>> \/ ~Is200(w.seller) \/ w.seller.id = 0
  THEN [table |-> tbl, seen |-> <<>>, requests |-> 0, raised |-> FALSE]
  ELSE RunPages(tbl, <<>>, 1, 0, w)

\* --- the values a sync is run on ---
Oids == {O1, O2}
NoteNone == [kind |-> "resp", status |-> 200, notes |-> <<>>, fbc |-> <<>>]
NoteWritten ==
  [kind |-> "resp", status |-> 200, notes |-> << <<"x">>, <<" ", "f", "b", "c", "100">> >>,
   fbc |-> <<"f", "b", "c", "200">>]
NoteInOrder == [kind |-> "raise", status |-> 0, notes |-> <<>>, fbc |-> <<"f", "b", "c", "200">>]
Crash == [kind |-> "crash", status |-> 0, notes |-> <<>>, fbc |-> <<>>, val |-> ""]
\* the answers to the note requests of the two orders
NoteProfiles ==
  { [o \in Oids |-> NoteNone], [o \in Oids |-> NoteWritten],
    [o \in Oids |-> IF o = O1 THEN NoteWritten ELSE NoteInOrder],
    [o \in Oids |-> IF o = O1 THEN Crash ELSE NoteWritten] }
\* the answers to the picture and shipment requests
Answered(v) == [kind |-> "resp", status |-> 200, val |-> v]
Missing == [kind |-> "resp", status |-> 404, val |-> ""]
ItemProfiles ==
  { [pic |-> [o \in Oids |-> Answered("img")], ship |-> [o \in Oids |-> Answered("shipped")]],
    [pic |-> [o \in Oids |-> IF o = O1 THEN Crash ELSE Missing],
     ship |-> [o \in Oids |-> IF o = O1 THEN Missing ELSE Crash]] }
DbProfiles ==
  { [o \in Oids |-> "ok"], [o \in Oids |-> IF o = O1 THEN "ok" ELSE "raise"] }
\* the orders listed: each with an id and a pack of its own, or both in the
\* same pack
OrderPairs ==
  { << MeliOrder(O1, <<>>, <<>>, "801", "paid", ""),
       MeliOrder(O2, <<>>, <<>>, "", "cancelled", "") >>,
    << MeliOrder(O1, PackText, <<>>, "801", "paid", "approved"),
       MeliOrder(O2, <<>>, PackText, "802", "paid", "") >> }
Page(orders, total) ==
  [kind |-> "resp", status |-> 200, results |-> orders, total |-> total]
NoPage(kind, status) == [kind |-> kind, status |-> status, results |-> <<>>, total |-> 0]
\* the answers to the /orders/search requests, in order: one page, two
\* pages, a second page that fails, and searches that give nothing
Listings ==
  { <<Page(p, Len(p))>> : p \in OrderPairs }
  \cup { <<Page(<<p[1]>>, Limit + Len(p)), Page(<<p[2]>>, Limit + Len(p))>> : p \in OrderPairs }
  \cup { <<Page(<<p[1]>>, Limit + Len(p)), NoPage("resp", 500)>> : p \in OrderPairs }
  \cup { <<NoPage("raise", 0)>>, <<NoPage("resp", 200)>>, <<NoPage("badjson", 200)>> }
SellerOk == [kind |-> "resp", status |-> 200, id |-> 7]
SellerDenied == [kind |-> "resp", status |-> 401, id |-> 0]
SyncWorlds ==
  { [seller |-> SellerOk, pages |-> l, note |-> n, pic |-> i.pic, ship |-> i.ship, db |-> d] :
      l \in Listings, n \in NoteProfiles, i \in ItemProfiles, d \in DbProfiles }
  \cup { [seller |-> SellerDenied, pages |-> l, note |-> [o \in Oids |-> NoteNone],
          pic |-> [o \in Oids |-> Missing], ship |-> [o \in Oids |-> Missing],
          db |-> [o \in Oids |-> "ok"]] : l \in {<<Page(p, Len(p))>> : p \in OrderPairs} }
NoWorld ==
  [seller |-> SellerDenied, pages |-> <<>>, note |-> [o \in Oids |-> NoteNone],
   pic |-> [o \in Oids |-> Missing], ship |-> [o \in Oids |-> Missing],
   db |-> [o \in Oids |-> "ok"]]

\* a record with every column of the table
FullRow(row, comentario, orden_amazon) ==
  row @@ [estado_orden |-> "", estado_envio |-> "", asin |-> "", cantidad |-> 0,
          titulo |-> "", url_imagen |-> "", fecha_venta |-> NoneVal,
          fecha_sincronizacion |-> NoneVal, comentario |-> comentario,
          orden_amazon |-> orden_amazon]
\* the tables a sync may find: empty; a record of order O1 synced earlier,
\* then scanned, printed and edited by hand, next to a record inserted by a
\* scan of an unknown guia
SyncTables ==
  { <<>>,
    << [FullRow(Printed(Row(G1, A1, PublicUrl(A1 \o PdfSuffix), O1, O1)), "fragil", "AMZ1")
          EXCEPT !.fecha_ingreso = "t0", !.fecha_sincronizacion = "t0"],
       FullRow([Row(G2, <<>>, <<>>, <<>>, <<>>)
                  EXCEPT !.estado_escaneo = "NO COINCIDENTE!", !.fecha_ingreso = "t0",
                         !.descripcion = ""], "", "") >> }

NoSync == [ran |-> FALSE, seen |-> <<>>, requests |-> 0, raised |-> FALSE]
NoPool == [futures |-> {}, maps |-> EmptyMaps, basics |-> <<>>, w |-> NoWorld]

\* the "Sincronizar" button: one run of sync_meli_orders
SyncOrders ==
  /\ fn \in {"none", "sync"}
  /\ \E w \in SyncWorlds :
       LET r == SyncMeliOrders(token, table, w)
       IN /\ table' = r.table
          /\ sync' = [ran |-> TRUE, seen |-> [i \in 1..Len(r.seen) |-> r.seen[i].oid],
                      requests |-> r.requests, raised |-> r.raised]
  /\ fn' = "sync"
  /\ UNCHANGED <<storeVars, tokenFile, env, secrets, pc, callVars, lastRefresh,
                 labelVars, args, api, log, out, bucket, page, token, scan, sess, pool>>

\* --- the futures of one page, completing in any order ---
\* for fut in as_completed(futures): the next future to complete is any of
\* those still pending
Complete ==
  /\ \E f \in pool.futures :
       pool' = [pool EXCEPT !.futures = @ \ {f}, !.maps = Collect(@, f, pool.w)]
  /\ UNCHANGED <<storeVars, tokenFile, env, secrets, pc, callVars, lastRefresh,
                 labelVars, helperVars, scanVars, sess, sync>>


\* --- two sessions scanning the same guia ---
Sessions == {"s1", "s2"}
NoSess ==
  [guia |-> <<>>, pre |-> <<>>, mode |-> [s \in Sessions |-> ""],
   at |-> [s \in Sessions |-> "idle"], match |-> [s \in Sessions |-> <<>>],
   last |-> "none"]
JobIdle == sess = NoSess /\ sync = NoSync /\ pool = NoPool

NoScan ==
  [input |-> <<>>, page |-> "", pre |-> <<>>, preBucket |-> EmptyBucket, ops |-> <<>>,
   served |-> FALSE, msg |-> ""]

ScanIdle ==
  /\ table = <<>>
  /\ bucket = EmptyBucket
  /\ page = "ingresar"
  /\ token = <<>>
  /\ scan = NoScan
  /\ JobIdle

\* the scan box handler (lines 351-353): strip the box and process the scan
ScanBox ==
  /\ fn = "none"
  /\ page \in ScanPages
  /\ \E input \in ScanInputs, a \in ScanWorlds :
       LET r == ProcessScan(Strip(input), page, token, table, bucket, a)
       IN /\ fn' = "scan"
          /\ args' = NoArgs
          /\ api' = a
          /\ log' = r.log
          /\ out' = [sid |-> r.sid, pdf |-> r.pdf, err |-> r.err, raised |-> r.raised]
          /\ table' = r.table
          /\ bucket' = r.bucket
          /\ scan' = [input |-> input, page |-> page, pre |-> table,
                      preBucket |-> bucket, ops |-> r.ops, served |-> r.served,
                      msg |-> r.msg]
          /\ UNCHANGED <<storeVars, tokenFile, env, secrets, pc, callVars, lastRefresh,
                         labelVars, page, token, jobVars>>

\* --- scans one after another, in one session ---
\* set_page, for the two pages that show the scan box
SetPage ==
  /\ fn \in {"none", "scan"}
  /\ \E p \in ScanPages : page' = p /\ p # page
  /\ UNCHANGED <<storeVars, tokenFile, env, secrets, pc, callVars, lastRefresh,
                 labelVars, helperVars, table, bucket, token, scan, jobVars>>

\* the label the marketplace holds for a shipment
LabelOfShipment(sid) == PdfMagic \o <<sid>>
\* a marketplace that knows the order and the pack of the records
KnownOrder ==
  [kind |-> "resp", status |-> 200, shipping_id |-> 1, pack_id |-> 0, pack_obj_id |-> 0]
KnownPack == [kind |-> "resp", status |-> 200, shipment_id |-> 4]
\* the shipment derive_shipment_id finds for the record a guia names
ShipmentOfGuia(tbl, guia) ==
  IF Matching(tbl, guia) = {} THEN NoneVal
  ELSE DeriveShipmentId(IdOrNone(FirstMatch(tbl, guia).orden_meli),
                        IdOrNone(FirstMatch(tbl, guia).pack_id),
                        [DeadApi EXCEPT !.order = KnownOrder, !.pack = KnownPack]).sid
\* the answers of one scan of a sequence: the stored file is missing or
\* valid, the label request gives the shipment's own label, the upload
\* works or not
SeqWorlds(tbl, guia) ==
  { [DeadApi EXCEPT !.head = st.head, !.urlget = st.urlget, !.order = KnownOrder,
                    !.pack = KnownPack,
                    !.label = [kind |-> "resp", status |-> 200, content |-> c],
                    !.upload = up, !.db = "ok"] :
    st \in {x \in StoredAnswers : x.head.status = 404 \/ x.urlget.content = PdfBody},
    c \in {LabelOfShipment(ShipmentOfGuia(tbl, guia))},
    up \in {"ok", "raise"} }
SeqInputs == { G1, G2, <<"G", "9", "\n">>, <<>> }
\* records synced from the marketplace: two whose guia was then filled in
\* and whose asignacion is empty, one still without guia
SeqTable ==
  << Row(G1, <<>>, <<>>, OrderText, <<>>), Row(G2, <<>>, <<>>, <<>>, PackText),
     Row(<<>>, A1, <<>>, <<>>, PackText) >>

ScanAgain ==
  /\ fn \in {"none", "scan"}
  /\ \E input \in SeqInputs :
       \E a \in SeqWorlds(table, Strip(input)) :
         LET r == ProcessScan(Strip(input), page, token, table, bucket, a)
         IN /\ fn' = "scan"
            /\ args' = NoArgs
            /\ api' = a
            /\ log' = r.log
            /\ out' = [sid |-> r.sid, pdf |-> r.pdf, err |-> r.err, raised |-> r.raised]
            /\ table' = r.table
            /\ bucket' = r.bucket
            /\ scan' = [input |-> input, page |-> page, pre |-> table,
                        preBucket |-> bucket, ops |-> r.ops, served |-> r.served,
                        msg |-> r.msg]
            /\ UNCHANGED <<storeVars, tokenFile, env, secrets, pc, callVars, lastRefresh,
                           labelVars, page, token, jobVars>>

\* The steps of process_scan in session s, each one request to the record
\* store or the bucket; the other session may act between any two.
\* match = lookup_by_guia(guia)
SessLookup(s) ==
  /\ sess.at[s] = "start"
  /\ sess' = [sess EXCEPT !.at[s] = "looked",
                          !.match[s] = IF Matching(table, sess.guia) = {} THEN <<>>
                                       ELSE <<FirstMatch(table, sess.guia)>>]
  /\ UNCHANGED <<storeVars, tokenFile, env, secrets, pc, callVars, lastRefresh,
                 labelVars, helperVars, table, bucket, page, token, scan, sync, pool>>

\* if not match: insert_no_coincidente(guia)
SessInsert(s) ==
  /\ sess.at[s] = "looked"
  /\ sess.match[s] = <<>>
  /\ table' = InsertNoCoincidente(table, sess.guia)
  /\ sess' = [sess EXCEPT !.at[s] = "done", !.last = s]
  /\ UNCHANGED <<storeVars, tokenFile, env, secrets, pc, callVars, lastRefresh,
                 labelVars, helperVars, bucket, page, token, scan, sync, pool>>

\* page "ingresar": update_ingreso(guia)
SessIngest(s) ==
  /\ sess.at[s] = "looked"
  /\ sess.match[s] # <<>>
  /\ sess.mode[s] = "ingresar"
  /\ table' = UpdateIngreso(table, sess.guia)
  /\ sess' = [sess EXCEPT !.at[s] = "done", !.last = s]
  /\ UNCHANGED <<storeVars, tokenFile, env, secrets, pc, callVars, lastRefresh,
                 labelVars, helperVars, bucket, page, token, scan, sync, pool>>

\* the object key of the matched record
SessKey(s) ==
  LET x == Strip(IF sess.match[s][1].asignacion = <<>> THEN Etiqueta
                 ELSE sess.match[s][1].asignacion)
  IN (IF x = <<>> THEN Etiqueta ELSE x) \o PdfSuffix

\* page "imprimir": the label is fetched and uploaded, or the scan ends
\* with a message and no write
SessFetch(s) ==
  /\ sess.at[s] = "looked"
  /\ sess.match[s] # <<>>
  /\ sess.mode[s] = "imprimir"
  /\ \/ /\ bucket' = [bucket EXCEPT ![SessKey(s)] = PdfBody]
        /\ sess' = [sess EXCEPT !.at[s] = "uploaded"]
     \/ /\ bucket' = bucket
        /\ sess' = [sess EXCEPT !.at[s] = "done"]
  /\ UNCHANGED <<storeVars, tokenFile, env, secrets, pc, callVars, lastRefresh,
                 labelVars, helperVars, table, page, token, scan, sync, pool>>

\* set_impreso_ok(guia, url)
SessMark(s) ==
  /\ sess.at[s] = "uploaded"
  /\ table' = SetImpresoOk(table, sess.guia, PublicUrl(SessKey(s)))
  /\ sess' = [sess EXCEPT !.at[s] = "done", !.last = s]
  /\ UNCHANGED <<storeVars, tokenFile, env, secrets, pc, callVars, lastRefresh,
                 labelVars, helperVars, bucket, page, token, scan, sync, pool>>

\* the stores the two sessions start on: the guia unknown, known, known
\* and already ingested
RaceTables ==
  { <<Row(G2, A1, <<>>, <<>>, PackText)>>,
    <<Row(G1, A1, <<>>, OrderText, <<>>)>>,
    <<Ingested(Row(G1, <<>>, <<>>, OrderText, <<>>)), Row(G2, A1, <<>>, <<>>, PackText)>> }

(***************************************************************************)
(* Specifications                                                          *)
(***************************************************************************)
NoSecrets == [present |-> FALSE, data |-> NoData]
NoFile == [exists |-> FALSE, data |-> NoData]

CallInit ==
  /\ req = NoRequest
  /\ sent = <<>>
  /\ resps = <<>>
  /\ nRefresh = 0
  /\ ret = NoResponse
  /\ lastRefresh = NotRefreshed

\* --- the token store loading its sources (__init__, lines 35-41) ---
EnvInputs == [Fields -> {Absent, "", "E"}]
SecretInputs ==
  {NoSecrets} \cup {[present |-> TRUE, data |-> d] : d \in [Fields -> {Absent, "S"}]}
FileInputs ==
  {NoFile} \cup {[exists |-> TRUE, data |-> d] : d \in [Fields -> {Absent, NoneVal, "F"}]}

LoadInit ==
  /\ pc = "new"
  /\ env \in EnvInputs
  /\ secrets \in SecretInputs
  /\ tokenFile \in FileInputs
  /\ app_id = NoneVal
  /\ client_secret = NoneVal
  /\ access_token = NoneVal
  /\ refresh_token = NoneVal
  /\ CallInit
  /\ HelperInit
  /\ ScanIdle
  /\ sh = NoShipment
  /\ reason = NoReason

Construct ==
  /\ pc = "new"
  /\ LET st == LoadAllSources(env, secrets, tokenFile) IN
       /\ app_id' = st.app_id
       /\ client_secret' = st.client_secret
       /\ access_token' = st.access_token
       /\ refresh_token' = st.refresh_token
  /\ pc' = "idle"
  /\ UNCHANGED <<tokenFile, env, secrets, callVars, lastRefresh, labelVars, helperVars, scanVars, jobVars>>

SpecLoad == LoadInit /\ [][Construct]_vars

\* --- the eligibility check on every shipment ---
LabelInit ==
  /\ pc = "shipment"
  /\ sh \in Shipments
  /\ reason = NoReason
  /\ env = NoData
  /\ secrets = NoSecrets
  /\ tokenFile = NoFile
  /\ app_id = NoneVal
  /\ client_secret = NoneVal
  /\ access_token = NoneVal
  /\ refresh_token = NoneVal
  /\ CallInit
  /\ HelperInit
  /\ ScanIdle

SpecLabel == LabelInit /\ [][ExplainLabel]_vars

\* --- one call of a helper that calls the API ---
MeliInit ==
  /\ pc = "idle"
  /\ sh = NoShipment
  /\ reason = NoReason
  /\ env = NoData
  /\ secrets = NoSecrets
  /\ tokenFile = NoFile
  /\ app_id = NoneVal
  /\ client_secret = NoneVal
  /\ access_token = NoneVal
  /\ refresh_token = NoneVal
  /\ CallInit
  /\ HelperInit
  /\ ScanIdle

MeliNext ==
  \/ ResolveFromPack
  \/ ResolveFromOrder
  \/ DeriveShipment
  \/ FetchLabelMeli
  \/ FetchLabelApp
  \/ DescargarEtiqueta

SpecMeli == MeliInit /\ [][MeliNext]_vars

\* --- one scan, on every store, page and saved token ---
ScanInit ==
  /\ pc = "idle"
  /\ sh = NoShipment
  /\ reason = NoReason
  /\ env = NoData
  /\ secrets = NoSecrets
  /\ tokenFile = NoFile
  /\ app_id = NoneVal
  /\ client_secret = NoneVal
  /\ access_token = NoneVal
  /\ refresh_token = NoneVal
  /\ CallInit
  /\ HelperInit
  /\ \E st \in Stores : table = st.table /\ bucket = st.bucket
  /\ page \in ScanPages
  /\ token \in Tokens
  /\ scan = NoScan
  /\ JobIdle

SpecScan == ScanInit /\ [][ScanBox]_vars

\* --- scans one after another on a store whose guias are unique ---
ScansInit ==
  /\ pc = "idle"
  /\ sh = NoShipment
  /\ reason = NoReason
  /\ env = NoData
  /\ secrets = NoSecrets
  /\ tokenFile = NoFile
  /\ app_id = NoneVal
  /\ client_secret = NoneVal
  /\ access_token = NoneVal
  /\ refresh_token = NoneVal
  /\ CallInit
  /\ HelperInit
  /\ table = SeqTable
  /\ bucket = EmptyBucket
  /\ page = "ingresar"
  /\ token = <<"T", "K">>
  /\ scan = NoScan
  /\ JobIdle

ScansNext == ScanAgain \/ SetPage

SpecScans == ScansInit /\ [][ScansNext]_vars

\* --- two sessions process a scan of the same guia ---
RaceInit ==
  /\ pc = "idle"
  /\ sh = NoShipment
  /\ reason = NoReason
  /\ env = NoData
  /\ secrets = NoSecrets
  /\ tokenFile = NoFile
  /\ app_id = NoneVal
  /\ client_secret = NoneVal
  /\ access_token = NoneVal
  /\ refresh_token = NoneVal
  /\ CallInit
  /\ HelperInit
  /\ table \in RaceTables
  /\ bucket = EmptyBucket
  /\ page = "ingresar"
  /\ token = <<"T", "K">>
  /\ scan = NoScan
  /\ sync = NoSync
  /\ pool = NoPool
  /\ \E m \in [Sessions -> ScanPages] :
       sess = [guia |-> G1, pre |-> table, mode |-> m,
               at |-> [s \in Sessions |-> "start"],
               match |-> [s \in Sessions |-> <<>>], last |-> "none"]

RaceNext ==
  \E s \in Sessions :
    SessLookup(s) \/ SessInsert(s) \/ SessIngest(s) \/ SessFetch(s) \/ SessMark(s)

SpecRace == RaceInit /\ [][RaceNext]_vars

\* --- marketplace syncs, one after another ---
SyncInit ==
  /\ pc = "idle"
  /\ sh = NoShipment
  /\ reason = NoReason
  /\ env = NoData
  /\ secrets = NoSecrets
  /\ tokenFile = NoFile
  /\ app_id = NoneVal
  /\ client_secret = NoneVal
  /\ access_token = NoneVal
  /\ refresh_token = NoneVal
  /\ CallInit
  /\ HelperInit
  /\ table \in SyncTables
  /\ bucket = EmptyBucket
  /\ page = "datos"
  /\ token \in Tokens
  /\ scan = NoScan
  /\ JobIdle

SpecSync == SyncInit /\ [][SyncOrders]_vars

\* --- the fan-out of one page of orders ---
PoolInit ==
  /\ pc = "idle"
  /\ sh = NoShipment
  /\ reason = NoReason
  /\ env = NoData
  /\ secrets = NoSecrets
  /\ tokenFile = NoFile
  /\ app_id = NoneVal
  /\ client_secret = NoneVal
  /\ access_token = NoneVal
  /\ refresh_token = NoneVal
  /\ CallInit
  /\ HelperInit
  /\ table = <<>>
  /\ bucket = EmptyBucket
  /\ page = "datos"
  /\ token = <<"T", "K">>
  /\ scan = NoScan
  /\ sess = NoSess
  /\ sync = NoSync
  /\ \E w \in SyncWorlds :
       /\ Is200(w.pages[1])
       /\ w.pages[1].results # <<>>
       /\ pool = [futures |-> {FuturesOf(BasicsOf(w.pages[1].results))[i] :
                                 i \in 1..Len(FuturesOf(BasicsOf(w.pages[1].results)))},
                  maps |-> EmptyMaps, basics |-> BasicsOf(w.pages[1].results), w |-> w]

SpecPool == PoolInit /\ [][Complete]_vars

\* --- the request wrapper and the token store, after construction ---
StartEnvs ==
  { [app_id |-> a, client_secret |-> c, access_token |-> t, refresh_token |-> r] :
    a \in {Absent, "APP"}, c \in {Absent, "SEC"}, t \in {Absent, "A0"},
    r \in {Absent, "R0"} }
StartSecrets ==
  { NoSecrets,
    [present |-> TRUE, data |-> [NoData EXCEPT !["refresh_token"] = ""]] }
StartFiles ==
  { NoFile,
    [exists |-> TRUE,
     data |-> [app_id |-> "APP", client_secret |-> "SEC", access_token |-> "A0",
               refresh_token |-> "R0"]] }

\* the sources are read once, by the constructor; the state keeps what it loaded
Init ==
  /\ pc = "idle"
  /\ env = NoData
  /\ secrets = NoSecrets
  /\ tokenFile \in StartFiles
  /\ \E e \in StartEnvs, s \in StartSecrets :
       LET st == LoadAllSources(e, s, tokenFile) IN
       /\ app_id = st.app_id
       /\ client_secret = st.client_secret
       /\ access_token = st.access_token
       /\ refresh_token = st.refresh_token
  /\ CallInit
  /\ HelperInit
  /\ ScanIdle
  /\ sh = NoShipment
  /\ reason = NoReason

Next ==
  \/ MeliRequestSend
  \/ MeliRequestRefresh
  \/ MeliRequestRetry
  \/ MeliRequestReturn

Spec == Init /\ [][Next]_vars

(***************************************************************************)
(* Properties of _meli_request (checked under Spec)                        *)
(***************************************************************************)
AuthFailure == {401, 403}
Finished == pc \in {"returned", "raised"}

\* C1: a call whose requests were answered [401, 200] made exactly one refresh
\* and returns the 200 response; a call whose requests were answered [401, 401]
\* made exactly one refresh, issued no third request and returns the second 401.
C1_RetrySequences ==
  /\ (pc = "returned" /\ resps = <<401, 200>>) =>
       (nRefresh = 1 /\ Len(sent) = 2 /\ ret = [status |-> 200, n |-> 2])
  /\ resps = <<401, 401>> =>
       /\ nRefresh = 1
       /\ Len(sent) = 2
       /\ pc \in {"got2", "returned"}
       /\ pc = "returned" => ret = [status |-> 401, n |-> 2]

C1_Witness ==
  /\ pc = "returned"
  /\ resps = <<401, 401>>
  /\ nRefresh = 1
  /\ ret = [status |-> 401, n |-> 2]

\* C2 as stated: whenever the first response is 401 or 403, refresh() is invoked
\* exactly once and the request is then re-issued exactly once with the token the
\* store holds after the refresh.
C2_AlwaysRetried ==
  (pc = "returned" /\ resps[1] \in AuthFailure) =>
    /\ nRefresh = 1
    /\ Len(sent) = 2
    /\ sent[2].req = sent[1].req
    /\ sent[2].auth = PyOr(access_token, "")

\* C2 amended: after a first 401/403, refresh() is invoked exactly once; the
\* request is re-issued, once, with the same arguments and the token the store
\* holds after the refresh, exactly when refresh() returned True; when it
\* returned False no second request is issued and the first response is returned.
C2_RetriedIffRefreshed ==
  (Finished /\ Len(resps) >= 1 /\ resps[1] \in AuthFailure) =>
    /\ nRefresh = 1
    /\ lastRefresh.called
    /\ lastRefresh.result =>
         /\ Len(sent) = 2
         /\ sent[2].req = sent[1].req
         /\ sent[2].auth = PyOr(access_token, "")
    /\ ~lastRefresh.result =>
         /\ Len(sent) = 1
         /\ pc = "returned"
         /\ ret = [status |-> resps[1], n |-> 1]

C2_Witness ==
  /\ pc = "returned"
  /\ resps[1] = 403
  /\ lastRefresh.result
  /\ Len(sent) = 2
  /\ sent[2].auth = "A1"
  /\ sent[1].auth = "A0"

\* C3: a call issues at most two requests and makes at most one refresh, and what
\* it returns is the last response it received (a 401/403 answer to the retry
\* included).
C3_AtMostOneRetry ==
  /\ Len(sent) <= 2
  /\ Len(resps) <= Len(sent)
  /\ nRefresh <= 1
  /\ pc = "returned" =>
       /\ Len(resps) = Len(sent)
       /\ ret = [status |-> resps[Len(resps)], n |-> Len(sent)]

C3_Witness ==
  /\ pc = "returned"
  /\ Len(sent) = 2
  /\ resps[1] = 401
  /\ resps[2] = 403
  /\ ret = [status |-> 403, n |-> 2]

(***************************************************************************)
(* Properties of MeliTokenStore.refresh (checked under Spec, on the        *)
(* refresh() that _meli_request invokes)                                   *)
(***************************************************************************)
Present(v) == v # NoneVal /\ v # Absent /\ v # ""
Answered200 ==
  /\ lastRefresh.called
  /\ lastRefresh.posted
  /\ lastRefresh.out.kind = "response"
  /\ lastRefresh.out.status = 200

\* C4: after a 200 token response that carries access_token, access_token is the
\* one received; refresh_token is the one received when the response carries one
\* and is unchanged otherwise; app_id and client_secret are unchanged; and the
\* token file that _save_file wrote holds exactly the four in-memory fields.
C4_RefreshOn200 ==
  Answered200 =>
    /\ Present(lastRefresh.out.at) => access_token = lastRefresh.out.at
    /\ (Present(lastRefresh.out.at) /\ ~Present(lastRefresh.out.rt)) =>
         refresh_token = lastRefresh.pre.refresh_token
    /\ (Present(lastRefresh.out.at) /\ Present(lastRefresh.out.rt)) =>
         refresh_token = lastRefresh.out.rt
    /\ app_id = lastRefresh.pre.app_id
    /\ client_secret = lastRefresh.pre.client_secret
    /\ lastRefresh.out.writable =>
         /\ tokenFile.exists
         /\ \A f \in Fields : tokenFile.data[f] = Store[f]

C4_Witness ==
  /\ Answered200
  /\ lastRefresh.out.at = "A2"
  /\ lastRefresh.out.rt = Absent
  /\ lastRefresh.pre.access_token = "A1"
  /\ lastRefresh.pre.refresh_token = "R1"
  /\ lastRefresh.preFile.data["access_token"] = "A1"
  /\ access_token = "A2"
  /\ refresh_token = "R1"
  /\ tokenFile.data["access_token"] = "A2"
  /\ tokenFile.data["refresh_token"] = "R1"

FailingOutcome(o) == o.kind \in {"network", "bad_json", "non_object"} \/ o.status # 200

\* C5: no exception leaves refresh(); on a non-200 status, a network exception or
\* an unparsable body it returns False with access_token, refresh_token and the
\* token file as they were; it returns True only after an HTTP 200.
C5_RefreshNeverRaises ==
  lastRefresh.called =>
    /\ ~lastRefresh.raised
    /\ pc = "raised" => Len(sent) = 2   \* only the retried request raised
    /\ FailingOutcome(lastRefresh.out) =>
         /\ ~lastRefresh.result
         /\ access_token = lastRefresh.pre.access_token
         /\ refresh_token = lastRefresh.pre.refresh_token
         /\ tokenFile = lastRefresh.preFile
    /\ lastRefresh.result =>
         /\ lastRefresh.posted
         /\ lastRefresh.out.status = 200

C5_Witness ==
  /\ lastRefresh.called
  /\ lastRefresh.posted
  /\ lastRefresh.out.kind = "bad_json"
  /\ lastRefresh.out.status = 200
  /\ ~lastRefresh.result
  /\ pc = "returned"

\* C6: can_refresh() is true exactly when app_id, client_secret and
\* refresh_token are all non-empty; when it is false refresh() returns False,
\* sends nothing to the token endpoint and leaves the store and the file alone.
C6_CanRefresh ==
  /\ CanRefresh(Store) <=>
       (Present(app_id) /\ Present(client_secret) /\ Present(refresh_token))
  /\ lastRefresh.called =>
       /\ lastRefresh.can <=>
            /\ Present(lastRefresh.pre.app_id)
            /\ Present(lastRefresh.pre.client_secret)
            /\ Present(lastRefresh.pre.refresh_token)
       /\ ~lastRefresh.can =>
            /\ ~lastRefresh.result
            /\ ~lastRefresh.posted
            /\ Store = lastRefresh.pre
            /\ tokenFile = lastRefresh.preFile

C6_Witness ==
  /\ lastRefresh.called
  /\ ~lastRefresh.can
  /\ Present(lastRefresh.pre.app_id)
  /\ Present(lastRefresh.pre.refresh_token)
  /\ ~Present(lastRefresh.pre.client_secret)
  /\ ~lastRefresh.posted
  /\ pc = "returned"

(***************************************************************************)
(* Property of _load_all_sources (checked under SpecLoad)                  *)
(***************************************************************************)
\* what environment and st.secrets give for a field
EnvConfig(f) == LoadSecrets(LoadEnv(env), secrets)[f]

\* C7: each field is loaded on its own: it holds the environment/config value
\* whenever that source has one, and the file's value only when environment and
\* config left the field empty.
C7_EnvConfigWinsPerField ==
  pc = "idle" =>
    \A f \in Fields :
      Store[f] = IF Present(EnvConfig(f)) THEN EnvConfig(f)
                 ELSE IF tokenFile.exists THEN Get(tokenFile.data, f, EnvConfig(f))
                 ELSE EnvConfig(f)

(***************************************************************************)
(* Properties of _explicacion_estado_label (checked under SpecLabel)       *)
(***************************************************************************)
\* The decision table of the label eligibility check, on the shipment's fields:
\* type is logistic.type, or logistic_type when logistic.type has no value.
TableMode(s) == IF s.logistic_present THEN s.logistic.mode ELSE Absent
TableType(s) ==
  IF ~s.logistic_present THEN Absent
  ELSE IF Present(s.logistic.type) THEN s.logistic.type
  ELSE s.logistic.logistic_type
TableRule(i, s) ==
  CASE i = 1 -> TableMode(s) # "me2"
    [] i = 2 -> TableType(s) = Absent
    [] i = 3 -> TableType(s) = "fulfillment"
    [] i = 4 -> TableType(s) \notin {"drop_off", "xd_drop_off", "cross_docking", "self_service"}
    [] i = 5 -> s.status = "pending" /\ s.substatus = "buffered"
    [] i = 6 -> s.status # "ready_to_ship"
    [] i = 7 -> s.substatus \notin {"ready_to_print", "printed"}
    [] OTHER -> TRUE
\* 8: no rule matches, the shipment is eligible
FirstRule(s) == CHOOSE i \in 1..8 : TableRule(i, s) /\ \A j \in 1..(i - 1) : ~TableRule(j, s)

\* the rule a returned reason belongs to
RuleOfReason(r) ==
  IF r = NoReason THEN 8
  ELSE IF r = MsgNotMe2 THEN 1
  ELSE IF r = MsgNoType THEN 2
  ELSE IF r = MsgFulfillment THEN 3
  ELSE IF r[1] = MsgTypeNotAllowed("")[1] THEN 4
  ELSE IF r[1] \in {MsgBuffering[1], MsgBufferingFrom("")[1]} THEN 5
  ELSE IF r[1] = MsgStatus("")[1] THEN 6
  ELSE IF r[1] = MsgSubstatus("")[1] THEN 7
  ELSE 0

\* C8: the reason returned is that of the first rule of the table that matches,
\* and None is returned exactly for mode me2, an allowed type, status
\* ready_to_ship and substatus ready_to_print or printed.
C8_DecisionTable ==
  pc = "explained" =>
    /\ RuleOfReason(reason) = FirstRule(sh)
    /\ reason = NoReason <=>
         /\ TableMode(sh) = "me2"
         /\ TableType(sh) \in {"drop_off", "xd_drop_off", "cross_docking", "self_service"}
         /\ sh.status = "ready_to_ship"
         /\ sh.substatus \in {"ready_to_print", "printed"}

C8_Witness ==
  /\ pc = "explained"
  /\ TableRule(5, sh) /\ TableRule(6, sh) /\ TableRule(7, sh)
  /\ FirstRule(sh) = 5
  /\ reason = MsgBufferingFrom("2025-01-01")

\* C9: a shipment whose logistic.mode is not "me2" (mode missing, or no logistic
\* object, included) gets the "not ME2" reason whatever its type, status and
\* substatus.
C9_NotMe2 ==
  (pc = "explained" /\ (~sh.logistic_present \/ sh.logistic.mode # "me2")) =>
    reason = MsgNotMe2

C9_Witness ==
  /\ pc = "explained"
  /\ sh.logistic_present
  /\ sh.logistic.mode = Absent
  /\ sh.logistic.type = "drop_off"
  /\ sh.status = "ready_to_ship"
  /\ sh.substatus = "ready_to_print"
  /\ reason = MsgNotMe2

\* C10: a shipment of type "fulfillment" is never eligible, also with status
\* ready_to_ship and substatus ready_to_print or printed.
C10_Fulfillment ==
  (pc = "explained" /\ sh.logistic_present /\ sh.logistic.type = "fulfillment") =>
    reason # NoReason

C10_Witness ==
  /\ pc = "explained"
  /\ sh.logistic.mode = "me2"
  /\ sh.logistic.type = "fulfillment"
  /\ sh.logistic.logistic_type = "drop_off"
  /\ sh.status = "ready_to_ship"
  /\ sh.substatus = "printed"
  /\ reason = MsgFulfillment


\* C11 as stated: every shipment with status pending, substatus buffered and a
\* buffering date D gets a message that includes D, and the generic buffering
\* message when it has no date.
Includes(msg, piece) == \E i \in 1..Len(msg) : msg[i] = piece
Buffered(s) == s.status = "pending" /\ s.substatus = "buffered"
DateOf(s) == IF s.lead_time.level = "buffering" THEN s.lead_time.date ELSE Absent
C11_BufferedAlwaysDated ==
  (pc = "explained" /\ Buffered(sh)) =>
    IF Present(DateOf(sh)) THEN Includes(reason, DateOf(sh)) ELSE reason = MsgBuffering

\* C11 amended: the same, for the shipments that pass the mode and type rules
\* (mode me2 and an allowed logistic type); the others get the reason of the
\* mode or type rule, which names no date.
PassesModeAndType(s) ==
  /\ TableMode(s) = "me2"
  /\ TableType(s) \in {"drop_off", "xd_drop_off", "cross_docking", "self_service"}
C11_BufferingDate ==
  (pc = "explained" /\ Buffered(sh)) =>
    IF PassesModeAndType(sh)
    THEN IF Present(DateOf(sh))
         THEN Includes(reason, DateOf(sh)) /\ RuleOfReason(reason) = 5
         ELSE reason = MsgBuffering
    ELSE RuleOfReason(reason) \in 1..4 /\ ~Includes(reason, "2025-01-01")

C11_Witness ==
  /\ pc = "explained"
  /\ Buffered(sh)
  /\ PassesModeAndType(sh)
  /\ DateOf(sh) = "2025-01-01"
  /\ reason[2] = "2025-01-01"


(***************************************************************************)
(* Claims about the label download and the shipment resolvers (SpecMeli)   *)
(***************************************************************************)
BeginsWithPdf(c) ==
  Len(c) >= Len(PdfMagic) /\ \A i \in 1..Len(PdfMagic) : c[i] = PdfMagic[i]
Requested(ep) == \E i \in 1..Len(log) : log[i].ep = ep
LabelFetchers == {"meli_download", "app_download"}

\* C12: a label answer becomes the returned PDF only when its status is 200
\* and its first four bytes are %PDF (an answer with any other body, status
\* 200 included, gives no PDF); and every PDF returned by
\* _meli_download_label_pdf, download_label_pdf or
\* descargar_etiqueta_por_order_o_pack begins with %PDF.
C12_OnlyPdfAccepted ==
  /\ (fn \in LabelFetchers /\ out.pdf.some) =>
       /\ api.label.kind = "resp" /\ api.label.status = 200
       /\ BeginsWithPdf(api.label.content)
       /\ out.pdf.content = api.label.content
  /\ (fn \in LabelFetchers /\ ~BeginsWithPdf(api.label.content)) => ~out.pdf.some
  /\ (fn \in LabelFetchers \cup {"descargar"} /\ out.pdf.some) =>
       BeginsWithPdf(out.pdf.content)

C12_Witness ==
  /\ fn = "app_download"
  /\ api.label.kind = "resp" /\ api.label.status = 200
  /\ api.label.content = HtmlBody
  /\ Requested("/shipment_labels")
  /\ ~out.pdf.some

\* C13: a label fetcher requests GET /shipment_labels only after it fetched
\* the shipment and the eligibility check on it returned eligible.
C13_EligibilityBeforeLabel ==
  (fn \in LabelFetchers /\ Requested("/shipment_labels")) =>
    /\ \E i, j \in 1..Len(log) :
         i < j /\ log[i].ep = "/shipments/{id}" /\ log[j].ep = "/shipment_labels"
    /\ ShipmentRead(api.shipment)
    /\ ExplicacionEstadoLabel(api.shipment.sh) = NoReason

OrderHasPack == api.order.pack_id > 0 \/ api.order.pack_obj_id > 0
OrderHasShipping == Is200(api.order) /\ api.order.shipping_id > 0
PackOrSearchRequested ==
  \E i \in 1..Len(log) :
    log[i].ep \in {"/packs/{id}", "/shipments/search?pack", "/shipments/search?order"}

\* C14: when the order response carries shipping.id and a pack id, both
\* resolvers of an order return shipping.id and request neither /packs/{id}
\* nor /shipments/search.
C14_ShippingIdFirst ==
  /\ (fn = "from_order" /\ OrderHasShipping /\ OrderHasPack) =>
       /\ out.sid = PyStr(api.order.shipping_id)
       /\ ~PackOrSearchRequested
  /\ (fn = "derive" /\ Truthy(args.order_id) /\ Truthy(args.pack_id)
        /\ OrderHasShipping) =>
       /\ out.sid = PyStr(api.order.shipping_id)
       /\ ~PackOrSearchRequested

C14_Witness ==
  /\ fn = "from_order"
  /\ OrderHasShipping /\ OrderHasPack
  /\ out.sid = "801"
  /\ log = <<Rq("/orders/{id}", "1000", 0)>>

\* the id a list of search results gives: the first result's id, else its
\* shipment_id
IdOfResults(results) ==
  IF results = <<>> THEN NoneVal
  ELSE IF results[1].id > 0 THEN IdStrings[results[1].id]
  ELSE IF results[1].shipment_id > 0 THEN IdStrings[results[1].shipment_id]
  ELSE NoneVal
ResultsOf(ans) == IF Is200(ans) THEN ans.results ELSE <<>>
PackYields ==
  \/ Is200(api.pack) /\ api.pack.shipment_id > 0
  \/ IdOfResults(ResultsOf(api.packsearch)) # NoneVal
Delegated == Is200(api.order) /\ api.order.shipping_id = 0 /\ OrderHasPack
SearchedWith(seller) ==
  \E i \in 1..Len(log) : log[i] = Rq("/shipments/search?order", args.order_id, seller)

\* C15: when neither shipping.id nor the pack of the order gives a
\* shipment, _meli_get_shipment_id_from_order searches by order, with the
\* seller and, after an answer without results, without it, and returns the
\* first result's id.
C15_SearchFallback ==
  (fn = "from_order" /\ ~OrderHasShipping /\ ~(Delegated /\ PackYields)) =>
    /\ SearchedWith(MeliGetUserId(api))
    /\ (api.osearch.kind = "resp" /\ ResultsOf(api.osearch) = <<>>) => SearchedWith(0)
    /\ (api.osearch.kind = "resp" /\ api.osearch2.kind = "resp") =>
         out.sid = IdOfResults(IF ResultsOf(api.osearch) # <<>>
                               THEN ResultsOf(api.osearch)
                               ELSE ResultsOf(api.osearch2))

\* C16: _meli_get_shipment_id_from_pack returns shipment.id of /packs/{id}
\* without searching; when that is absent or the answer is not 200 it
\* searches by pack, scoped by the seller given, and returns the first
\* result's id, or its shipment_id when id is absent.
C16_PackThenSearch ==
  fn = "from_pack" =>
    IF Is200(api.pack) /\ api.pack.shipment_id > 0
    THEN /\ out.sid = IdStrings[api.pack.shipment_id]
         /\ log = <<Rq("/packs/{id}", args.pack_id, 0)>>
    ELSE /\ log = <<Rq("/packs/{id}", args.pack_id, 0),
                    Rq("/shipments/search?pack", args.pack_id, args.seller_id)>>
         /\ out.sid = IdOfResults(ResultsOf(api.packsearch))

C16_Witness ==
  /\ fn = "from_pack"
  /\ ~Is200(api.pack)
  /\ Is200(api.packsearch)
  /\ api.packsearch.results # <<>>
  /\ api.packsearch.results[1].id = 0
  /\ out.sid = "806"

\* no answer of the API carries a shipment id
NothingFound ==
  /\ ~OrderHasShipping
  /\ ~(Is200(api.pack) /\ api.pack.shipment_id > 0)
  /\ \A k \in {"packsearch", "osearch", "osearch2"} :
       IdOfResults(ResultsOf(api[k])) = NoneVal

\* C17: the two shipment resolvers never raise, and return None when every
\* step meets a non-200 answer, an exception or a missing or empty field.
C17_ResolversNeverRaise ==
  fn \in {"from_pack", "from_order"} =>
    /\ ~out.raised
    /\ NothingFound => out.sid = NoneVal

C17_Witness ==
  /\ fn = "from_order"
  /\ api.order.kind = "resp" /\ api.order.status = 404
  /\ api.user.kind = "raise"
  /\ api.osearch.kind = "bad_json"
  /\ SearchedWith(0)
  /\ out.sid = NoneVal


(***************************************************************************)
(* Claims about process_scan (SpecScan)                                    *)
(***************************************************************************)
\* t is text without its leading and trailing whitespace
IsTrimOf(t, text) ==
  \E i \in 0..Len(text), j \in 0..Len(text) :
    /\ t = SubSeq(text, i + 1, j)
    /\ \A k \in 1..i : text[k] \in {" ", "\n", "\t"}
    /\ \A k \in (j + 1)..Len(text) : text[k] \in {" ", "\n", "\t"}
    /\ t # <<>> => (t[1] \notin {" ", "\n", "\t"} /\ t[Len(t)] \notin {" ", "\n", "\t"})
Pieces(text) == {SubSeq(text, i, j) : i \in 1..(Len(text) + 1), j \in 0..Len(text)}
\* the guia of the latest scan: the box without surrounding whitespace
Scanned == CHOOSE t \in Pieces(scan.input) : IsTrimOf(t, scan.input)
RowsOf(tbl, guia) == {i \in 1..Len(tbl) : tbl[i].guia = guia}
ScanDone == fn = "scan" /\ ~out.raised
\* the latest scan was of a guia (a text that is not blank) that a record holds
Found == Scanned # <<>> /\ RowsOf(scan.pre, Scanned) # {}
OpsNamed(op) == {i \in 1..Len(scan.ops) : scan.ops[i].op = op}
RowFields ==
  {"asignacion", "guia", "fecha_ingreso", "fecha_impresion", "estado_escaneo",
   "archivo_adjunto", "orden_meli", "pack_id", "descripcion"}

\* C18 as stated: a scan of a guia that no record holds makes exactly one
\* insert and no update, and the inserted record has estado_escaneo
\* "NO COINCIDENTE" and the operator's input, verbatim, as its guia.
C18_InsertVerbatim ==
  (ScanDone /\ RowsOf(scan.pre, scan.input) = {}) =>
    /\ Cardinality(OpsNamed("insert")) = 1
    /\ OpsNamed("update") = {}
    /\ Len(table) = Len(scan.pre) + 1
    /\ table[Len(table)].estado_escaneo = "NO COINCIDENTE"
    /\ table[Len(table)].guia = scan.input

\* C18: a scan whose guia, the input without its surrounding whitespace, is
\* not empty and held by no record makes, in either mode, exactly one insert
\* and no update; the inserted record has estado_escaneo "NO COINCIDENTE!"
\* and that guia; the earlier records stay as they were.  An input that is
\* empty after stripping reaches the store not at all.
C18_InsertStripped ==
  /\ (ScanDone /\ Scanned # <<>> /\ RowsOf(scan.pre, Scanned) = {}) =>
       /\ Cardinality(OpsNamed("insert")) = 1
       /\ OpsNamed("update") = {}
       /\ Len(table) = Len(scan.pre) + 1
       /\ SubSeq(table, 1, Len(scan.pre)) = scan.pre
       /\ table[Len(table)].estado_escaneo = "NO COINCIDENTE!"
       /\ table[Len(table)].guia = Scanned
  /\ (ScanDone /\ Scanned = <<>>) => (scan.ops = <<>> /\ table = scan.pre)

C18_Witness ==
  /\ ScanDone
  /\ scan.page = "imprimir"
  /\ scan.input = <<"G", "9", "\n">>
  /\ Len(table) = Len(scan.pre) + 1
  /\ table[Len(table)].guia = <<"G", "9">>

\* C19: a scan in ingest mode of a guia that is found sets fecha_ingreso and
\* estado_escaneo of every record with that guia and nothing else: no field
\* of another kind, no other record, no insert, no request to the
\* marketplace and no storage call.
C19_IngestFrame ==
  (ScanDone /\ scan.page = "ingresar" /\ Found) =>
    /\ Len(table) = Len(scan.pre)
    /\ \A i \in 1..Len(table) :
         IF i \in RowsOf(scan.pre, Scanned)
         THEN /\ table[i].fecha_ingreso = "now"
              /\ table[i].estado_escaneo = "INGRESADO CORRECTAMENTE!"
              /\ \A f \in RowFields \ {"fecha_ingreso", "estado_escaneo"} :
                   table[i][f] = scan.pre[i][f]
         ELSE table[i] = scan.pre[i]
    /\ OpsNamed("insert") = {} /\ OpsNamed("upload") = {}
    /\ log = <<>>
    /\ bucket = scan.preBucket

C19_Witness ==
  /\ ScanDone
  /\ scan.page = "ingresar"
  /\ scan.input = <<" ", "G", "1", "\n">>
  /\ Cardinality(RowsOf(scan.pre, G1)) > 1
  /\ \A i \in RowsOf(table, G1) : table[i].fecha_ingreso = "now"
  /\ \E i \in RowsOf(table, G1) : scan.pre[i].fecha_ingreso = "t0"

PrintScan == ScanDone /\ scan.page = "imprimir" /\ Found

\* C20 as stated: every print-mode scan of a guia that is found updates
\* fecha_impresion of its record.
C20_PrintAlwaysStamped ==
  PrintScan => \A i \in RowsOf(scan.pre, Scanned) : table[i].fecha_impresion = "now"

\* a label was downloaded from the marketplace and its upload gave a URL
LiveLabelStored ==
  /\ ~scan.served
  /\ out.pdf.some
  /\ OpsNamed("upload") # {}
  /\ api.upload = "ok"

\* C20: a print-mode scan of a guia that is found writes fecha_impresion
\* (with estado_escaneo and archivo_adjunto) exactly when a label was
\* downloaded live and its upload returned a URL; when the stored PDF is
\* served or any step fails, the records stay as they were.
C20_StampedAfterUpload ==
  PrintScan =>
    IF LiveLabelStored
    THEN \A i \in 1..Len(table) :
           IF i \in RowsOf(scan.pre, Scanned)
           THEN /\ table[i].fecha_impresion = "now"
                /\ table[i].estado_escaneo = "IMPRIMIDO CORRECTAMENTE!"
           ELSE table[i] = scan.pre[i]
    ELSE table = scan.pre

C20_Witness ==
  /\ PrintScan
  /\ scan.served
  /\ Requested("GET")
  /\ table = scan.pre
  /\ \E i \in RowsOf(table, Scanned) : table[i].fecha_impresion = NoneVal


\* the record a print scan works on: the first with the scanned guia
Scannedrow == scan.pre[CHOOSE i \in RowsOf(scan.pre, Scanned) :
                         \A j \in RowsOf(scan.pre, Scanned) : i <= j]
\* its stored file is named, answers HEAD with 200 and begins with %PDF
StoredValid ==
  /\ Scannedrow.archivo_adjunto # <<>>
  /\ api.head.kind = "resp" /\ api.head.status = 200
  /\ api.urlget.kind = "resp" /\ BeginsWithPdf(api.urlget.content)
MarketplaceRequests ==
  {i \in 1..Len(log) : log[i].ep \in {"/orders/{id}", "/packs/{id}", "/shipment_labels"}}
NotBlank(text) == \E i \in 1..Len(text) : text[i] \notin {" ", "\n", "\t"}
\* the record names an order or a pack to resolve the shipment from
HasIds == NotBlank(Scannedrow.orden_meli) \/ NotBlank(Scannedrow.pack_id)
\* the storage key of the record: its asignacion without surrounding
\* whitespace, "etiqueta" when that is empty, then ".pdf"
KeyOfRow(row) ==
  LET t == CHOOSE x \in Pieces(row.asignacion) : IsTrimOf(x, row.asignacion)
  IN (IF t = <<>> THEN <<"e", "t", "i", "q", "u", "e", "t", "a">> ELSE t)
       \o <<".", "p", "d", "f">>
LiveSuccess == ~scan.served /\ out.pdf.some /\ api.upload = "ok"

\* C21 as stated: in a print scan of a found record the stored PDF is served,
\* without marketplace request, exactly when archivo_adjunto is not empty,
\* reachable and begins with %PDF; in every other case the live fetch is
\* attempted, and its success uploads the PDF and sets archivo_adjunto to
\* the URL of the uploaded object.
C21_ServeOrFetch ==
  PrintScan =>
    /\ scan.served <=> StoredValid
    /\ scan.served => MarketplaceRequests = {}
    /\ (~StoredValid /\ HasIds) => MarketplaceRequests # {}
    /\ LiveSuccess =>
         /\ bucket[KeyOfRow(Scannedrow)] = out.pdf.content
         /\ \A i \in RowsOf(table, Scanned) :
              table[i].archivo_adjunto = <<"https://storage/etiquetas/">> \o KeyOfRow(Scannedrow)

\* C21: as above, except that the live fetch is attempted only when a token
\* is saved; without one the scan ends with no marketplace request and no
\* write.
C21_ServeOrFetchWithToken ==
  PrintScan =>
    /\ scan.served <=> StoredValid
    /\ scan.served => (MarketplaceRequests = {} /\ table = scan.pre /\ bucket = scan.preBucket)
    /\ (~StoredValid /\ HasIds /\ NotBlank(token)) => MarketplaceRequests # {}
    /\ (~StoredValid /\ ~NotBlank(token)) =>
         (MarketplaceRequests = {} /\ table = scan.pre /\ bucket = scan.preBucket)
    /\ LiveSuccess =>
         /\ bucket[KeyOfRow(Scannedrow)] = out.pdf.content
         /\ \A i \in RowsOf(table, Scanned) :
              table[i].archivo_adjunto = <<"https://storage/etiquetas/">> \o KeyOfRow(Scannedrow)

C21_Witness ==
  /\ PrintScan
  /\ Scannedrow.archivo_adjunto # <<>>
  /\ ~StoredValid
  /\ LiveSuccess
  /\ Requested("GET") /\ Requested("/shipment_labels")
  /\ bucket[KeyOfRow(Scannedrow)] = PdfBody


\* C24: process_scan returns normally, with a message for the operator,
\* whatever the record store, the network and the storage do.
C24_ScanNeverRaises ==
  fn = "scan" => (~out.raised /\ scan.msg # "")

\* the records that the latest scan turned into printed ones
MarkedPrinted ==
  {i \in 1..Len(scan.pre) :
     /\ table[i] # scan.pre[i]
     /\ \/ table[i].estado_escaneo = "IMPRIMIDO CORRECTAMENTE!"
        \/ table[i].fecha_impresion # scan.pre[i].fecha_impresion
        \/ table[i].archivo_adjunto # scan.pre[i].archivo_adjunto}
PrintFailed ==
  \/ ~NotBlank(token)
  \/ out.sid = NoneVal
  \/ ~out.pdf.some
  \/ api.upload # "ok"

\* C27: a scan marks records printed (estado_escaneo, fecha_impresion and
\* archivo_adjunto written together) only when it downloaded a label that
\* begins with %PDF and the upload of it returned a URL; a print scan that
\* does not serve the stored PDF and fails at the token, the shipment, the
\* download or the upload leaves the table as it was.
C27_PrintedOnlyAfterValidPdf ==
  fn = "scan" =>
    /\ \A i \in MarkedPrinted :
         /\ scan.page = "imprimir"
         /\ table[i].guia = Scanned
         /\ api.label.kind = "resp" /\ api.label.status = 200
         /\ out.pdf.some /\ BeginsWithPdf(out.pdf.content)
         /\ out.pdf.content = api.label.content
         /\ api.upload = "ok"
         /\ table[i].estado_escaneo = "IMPRIMIDO CORRECTAMENTE!"
         /\ table[i].fecha_impresion = "now"
         /\ table[i].archivo_adjunto # <<>>
    /\ (scan.page = "imprimir" /\ Found /\ ~scan.served /\ PrintFailed) => table = scan.pre

C27_Witness ==
  /\ PrintScan
  /\ MarkedPrinted # {}
  /\ \E i \in MarkedPrinted : scan.pre[i].fecha_impresion = "t0"
  /\ out.pdf.content = PdfBody


(***************************************************************************)
(* Tokens across a sequence of _meli_request calls (Spec)                  *)
(***************************************************************************)
\* the Authorization value of a token: the token, "" when there is none
BearerOf(tok) == IF tok \in {NoneVal, Absent, ""} THEN "" ELSE tok
Given(v) == v \notin {NoneVal, Absent, ""}
RefreshStep == nRefresh' = nRefresh + 1

\* C28: step by step over any sequence of calls.  A refresh request sends
\* the refresh_token the store holds; the store's refresh_token changes only
\* in a refresh that succeeded, to the token that answer returned, and every
\* returned token is stored; so the token sent is the one most recently
\* returned, or the loaded one.  Likewise the access token changes only in
\* a refresh that succeeded, to the one obtained, and every request carries
\* the access token held when it is issued.
C28_TokensFollowLatestRefresh ==
  [][ /\ (RefreshStep /\ lastRefresh'.posted) =>
           lastRefresh'.postedToken = refresh_token
      /\ (RefreshStep /\ lastRefresh'.result /\ Given(lastRefresh'.out.rt)) =>
           refresh_token' = lastRefresh'.out.rt
      /\ (RefreshStep /\ lastRefresh'.result /\ Given(lastRefresh'.out.at)) =>
           access_token' = lastRefresh'.out.at
      /\ refresh_token' # refresh_token =>
           /\ RefreshStep /\ lastRefresh'.result
           /\ lastRefresh'.out.status = 200
           /\ refresh_token' = lastRefresh'.out.rt
      /\ access_token' # access_token =>
           /\ RefreshStep /\ lastRefresh'.result
           /\ lastRefresh'.out.status = 200
           /\ access_token' = lastRefresh'.out.at
      /\ sent' # sent => sent'[Len(sent')].auth = BearerOf(access_token')
    ]_vars

\* a refresh that posts R2, returned by an earlier call's refresh, and gets
\* R1 and A1, followed by the retry carrying A1
C28_Witness ==
  /\ pc = "got2"
  /\ lastRefresh.posted /\ lastRefresh.postedToken = "R2"
  /\ lastRefresh.result
  /\ lastRefresh.out.rt = "R1" /\ lastRefresh.out.at = "A1"
  /\ lastRefresh.pre.access_token = "A2"
  /\ refresh_token = "R1"
  /\ Len(sent) > 1 /\ sent[Len(sent)].auth = "A1"


(***************************************************************************)
(* Claims about sequences of scans (SpecScans)                             *)
(***************************************************************************)
\* C22: from a store whose non-empty guias are unique, scans executed one
\* after another, with any inputs on either page, never leave two records
\* with the same non-empty guia.
C22_GuiaUnique ==
  \A i, j \in 1..Len(table) :
    (i # j /\ table[i].guia # <<>>) => table[i].guia # table[j].guia

\* the guia G9 was scanned twice: inserted by the first scan, found and
\* ingested by the second
C22_Witness ==
  /\ fn = "scan"
  /\ Len(table) = Len(SeqTable) + 1
  /\ table[Len(table)].guia = <<"G", "9">>
  /\ table[Len(table)].estado_escaneo = "INGRESADO CORRECTAMENTE!"
  /\ scan.pre[Len(table)].estado_escaneo = "NO COINCIDENTE!"

\* the object a public URL names
ObjectAt(url) == bucket[Tail(url)]
\* the label of the record's own shipment
OwnLabel(row) ==
  <<"%", "P", "D", "F">>
    \o << IF NotBlank(row.orden_meli) THEN IdStrings[KnownOrder.shipping_id]
          ELSE IdStrings[KnownPack.shipment_id] >>

\* C30: after any sequence of scans, the archivo_adjunto of every printed
\* record names a stored object that holds the label downloaded for that
\* record's own shipment.
C30_OwnLabelStored ==
  \A i \in 1..Len(table) :
    table[i].estado_escaneo = "IMPRIMIDO CORRECTAMENTE!" =>
      ObjectAt(table[i].archivo_adjunto) = OwnLabel(table[i])


(***************************************************************************)
(* Claims about two sessions scanning the same guia (SpecRace)             *)
(***************************************************************************)
RaceDone == \A s \in Sessions : sess.at[s] = "done"
GuiaRows(tbl) == {i \in 1..Len(tbl) : tbl[i].guia = sess.guia}
\* the estado_escaneo written by the write that executed last
LastEstado ==
  IF sess.last = "none" THEN sess.pre[CHOOSE i \in GuiaRows(sess.pre) : TRUE].estado_escaneo
  ELSE IF sess.match[sess.last] = <<>> THEN "NO COINCIDENTE!"
  ELSE IF sess.mode[sess.last] = "ingresar" THEN "INGRESADO CORRECTAMENTE!"
  ELSE "IMPRIMIDO CORRECTAMENTE!"

\* C26 as stated: when two sessions have processed a scan of the same guia
\* with their steps interleaved in any order, the store holds exactly one
\* record for the guia, with the values of the write that executed last.
C26_OneRecordLastWriteWins ==
  RaceDone =>
    /\ Cardinality(GuiaRows(table)) = 1
    /\ \A i \in GuiaRows(table) : table[i].estado_escaneo = LastEstado

\* C26 (amended): when the guia had a record before, the store holds the
\* same number of records afterwards, one of them for the guia, with the
\* values of the write that executed last; when it had none, every session
\* whose lookup ran before the first insert inserts a record of its own, so
\* the store holds one record for the guia or two.
C26_LastWriteWinsOnKnownGuia ==
  RaceDone =>
    /\ \A i \in GuiaRows(table) : table[i].estado_escaneo = LastEstado
    /\ GuiaRows(sess.pre) # {} =>
         /\ Len(table) = Len(sess.pre)
         /\ Cardinality(GuiaRows(table)) = 1
    /\ GuiaRows(sess.pre) = {} =>
         /\ Cardinality(GuiaRows(table))
              = Cardinality({s \in Sessions : sess.match[s] = <<>>})
         /\ Cardinality(GuiaRows(table)) \in {1, 2}

\* both sessions looked the unknown guia up before either wrote: two records
C26_Witness ==
  /\ RaceDone
  /\ GuiaRows(sess.pre) = {}
  /\ Cardinality(GuiaRows(table)) = 2


(***************************************************************************)
(* Claims about the marketplace sync (SpecSync, SpecPool)                  *)
(***************************************************************************)
Synced == {i \in 1..Len(table) : table[i].orden_meli # <<>>}

\* C23 as stated: an order matching an existing record on orden_meli,
\* asignacion or pack_id updates that record, so after any number of syncs
\* no two records are for the same order, the same assignment or the same
\* pack.
C23_OneRecordPerOrderAssignmentPack ==
  \A i, j \in Synced :
    i # j =>
      /\ table[i].orden_meli # table[j].orden_meli
      /\ table[i].pack_id # table[j].pack_id
      /\ table[i].asignacion # <<>> => table[i].asignacion # table[j].asignacion

\* what the sync does keep: it matches on orden_meli alone, so after any
\* number of syncs no two records are for the same order
OneRecordPerOrder ==
  \A i, j \in Synced : i # j => table[i].orden_meli # table[j].orden_meli

\* two orders of one pack with the same note, synced: a record each
SamePackTwoRecords ==
  /\ sync.ran
  /\ \E i, j \in Synced :
       /\ table[i].orden_meli = <<"1", "0", "0", "0">>
       /\ table[j].orden_meli = <<"1", "0", "0", "1">>
       /\ table[i].pack_id = table[j].pack_id
       /\ table[i].asignacion = table[j].asignacion
       /\ table[i].asignacion # <<>>
       /\ table[i].fecha_sincronizacion = "now"
       /\ table[j].fecha_sincronizacion = "now"

ScanColumns ==
  {"guia", "archivo_adjunto", "estado_escaneo", "fecha_ingreso", "fecha_impresion",
   "descripcion", "comentario", "orden_amazon"}

\* C29: a sync leaves guia, archivo_adjunto, estado_escaneo, fecha_ingreso,
\* fecha_impresion, descripcion, comentario and orden_amazon of every
\* existing record unchanged, and removes no record.
C29_SyncKeepsScanData ==
  [][ /\ Len(table') >= Len(table)
      /\ \A i \in 1..Len(table) : \A c \in ScanColumns : table'[i][c] = table[i][c] ]_vars

\* the printed, hand-edited record of order O1 after a sync updated it
C29_Witness ==
  /\ sync.ran
  /\ Len(table) >= 1
  /\ table[1].fecha_sincronizacion = "now"
  /\ table[1].estado_orden = "approved"
  /\ table[1].guia = <<"G", "1">>
  /\ table[1].archivo_adjunto # <<>>
  /\ table[1].estado_escaneo = "IMPRIMIDO CORRECTAMENTE!"
  /\ table[1].comentario = "fragil"
  /\ table[1].orden_amazon = "AMZ1"

\* the orders of the page, and each order's own results
PageOrders == {pool.basics[i] : i \in 1..Len(pool.basics)}
OwnNote(b) ==
  IF pool.w.note[b.oid].kind = "crash" THEN <<>>
  ELSE Upper(GetOrderNote(pool.w.note[b.oid]))
OwnPic(b) ==
  IF pool.w.pic[b.oid].kind = "crash" THEN ""
  ELSE GetItemPicture(b.item_id, pool.w.pic[b.oid])
OwnShip(b) ==
  IF pool.w.ship[b.oid].kind = "crash" THEN ""
  ELSE GetShipStatus(b.shipment_id, pool.w.ship[b.oid])
PoolDone == pool.basics # <<>> /\ pool.futures = {}

\* C25: in whatever order the futures complete, every entry of notes, pics
\* and ships is keyed by an order of the page and holds that order's own
\* result ("" when its worker raised), and once all have completed the maps
\* hold exactly one entry per order (ships: per order with a shipment).
C25_MapsIndependentOfOrder ==
  /\ pool.maps.notes \subseteq {<<b.oid, OwnNote(b)>> : b \in PageOrders}
  /\ pool.maps.pics \subseteq {<<b.oid, OwnPic(b)>> : b \in PageOrders}
  /\ pool.maps.ships \subseteq {<<b.oid, OwnShip(b)>> : b \in PageOrders}
  /\ PoolDone =>
       /\ pool.maps.notes = {<<b.oid, OwnNote(b)>> : b \in PageOrders}
       /\ pool.maps.pics = {<<b.oid, OwnPic(b)>> : b \in PageOrders}
       /\ pool.maps.ships
            = {<<b.oid, OwnShip(b)>> : b \in {x \in PageOrders : x.shipment_id # ""}}

\* a page of two orders, all futures completed, the note worker of the
\* first having raised
C25_Witness ==
  /\ PoolDone
  /\ Len(pool.basics) = 2
  /\ pool.w.note[pool.basics[1].oid].kind = "crash"
  /\ <<pool.basics[1].oid, <<>>>> \in pool.maps.notes
  /\ <<pool.basics[2].oid, <<"F", "B", "C", "100">>>> \in pool.maps.notes
  /\ Cardinality(pool.maps.ships) = 1

====
